---- MODULE Spec2Model ----
(***************************************************************************)
(* A model of the code-generation / execution core of the data-analysis    *)
(* chatbot: the SQL and Python executor (core/code_executor.py), the       *)
(* conversation context manager (core/context_manager.py) and the retry    *)
(* orchestrator handle_code_mode (utils/helper.py).                        *)
(*                                                                         *)
(* Python values are tagged records: None is [kind |-> "None"], a str is   *)
(* [kind |-> "str", s |-> "..."], so that a value that may be None or a    *)
(* string can be compared.  Text is TLA+ strings, on which Len, SubSeq     *)
(* and \o act as on Python strings.                                        *)
(***************************************************************************)
EXTENDS Integers, Sequences, FiniteSets, TLC

VARIABLES
    \* ---- CodeExecutor.execute_sql called on its own (SpecSql) ----
    sqlPc,          \* "call": about to be called; "ret": has returned
    sqlCode,        \* the statement passed as `code`
    sqlRet,         \* what the call returned and the engine calls it made
    \* ---- ContextManager ----
    messages,       \* ContextManager.messages
    ctxLast,        \* SpecCtx: the last operation applied and what it returned / raised
    ctxOps,         \* SpecCtx: number of operations applied so far
    \* ---- AppState (st.session_state.app_state) ----
    display_messages,
    total_cost,     \* in units of the smallest cost
    api_calls,
    cost_history,
    \* ---- handle_code_mode: its arguments, locals and position ----
    pc,             \* "idle": no call in progress; "generate": about to call the
                    \* generator; "execute": about to call the executor
    mode,
    user_input,
    max_attempts,
    is_raw,
    attempt,
    error_context,
    code,
    metadata,
    \* ---- history of the current request, kept for the properties ----
    trace,          \* the generation and execution calls made, in order
    outcome,        \* how the last call of handle_code_mode ended
    requests,       \* calls of handle_code_mode so far
    cost0,          \* total_cost when the current request began
    calls0,         \* api_calls when the current request began
    exception,      \* the exception that left the last call of handle_code_mode, or None
    \* ---- the session's dataset across executor calls (SpecData) ----
    dataset,        \* state.df, the DataFrame object every executor call is given
    execLast,       \* the last executor call: its code, the dataset before it, its return
    execCalls,      \* executor calls made so far
    \* ---- two browser sessions served by one process (SpecSessions) ----
    sharedConn,     \* the DuckDB connection of init_duckdb: what its view 'df' holds
    sessDf,         \* per session: state.df
    sessPc,         \* per session: position inside execute_sql
    sessResult,     \* per session: what its last query returned
    sessQueries,    \* per session: queries started so far
    \* ---- a function of the program called on its own (SpecFn) ----
    fnPc,           \* "call": about to be called; "ret": has returned
    fnCall,         \* the function and its argument
    fnRet,          \* what it returned (or raised)
    \* ---- QueryLibrary (SpecLib) ----
    libFile,        \* data/queries.json: the list under "queries", as stored
    libLast,        \* the last operation and what it returned
    libSaved,       \* what each save was given, by the identifier it returned
    libOps,         \* operations so far; also the clock of datetime.now()
    \* ---- requests that ran code as given, typed or loaded (SpecLoaded) ----
    handled,        \* what each such request left behind, in order
    \* ---- QueryLibrary.save called by two sessions at once (SpecSaves) ----
    savePc,         \* per session: position inside save
    saveQueries,    \* per session: the local list queries of its save
    \* ---- execute_python called by two sessions at once (SpecStdout) ----
    sysStdout,      \* sys.stdout of the process: 0 for sys.__stdout__, u for the
                    \* output_buffer of session u's call
    outBuffer,      \* per session: the text in the output_buffer of its call
    outPc,          \* per session: position inside execute_python, lines printed
    outRet,         \* per session: the output its call returned
    console         \* what was written to sys.__stdout__

svars == <<sqlPc, sqlCode, sqlRet>>
cvars == <<messages, ctxLast, ctxOps>>
hvars == <<display_messages, total_cost, api_calls, cost_history, pc, mode, user_input,
           max_attempts, is_raw, attempt, error_context, code, metadata, trace, outcome,
           requests, cost0, calls0, exception>>
dvars == <<dataset, execLast, execCalls>>
ssvars == <<sharedConn, sessDf, sessPc, sessResult, sessQueries>>
fvars == <<fnPc, fnCall, fnRet>>
lvars == <<libFile, libLast, libSaved, libOps>>
ldvars == <<handled>>
rvars == <<savePc, saveQueries>>
ovars == <<sysStdout, outBuffer, outPc, outRet, console>>
zvars == <<ldvars, rvars, ovars>>
xvars == <<dvars, ssvars, fvars, lvars, zvars>>
vars == <<sqlPc, sqlCode, sqlRet, messages, ctxLast, ctxOps,
          display_messages, total_cost, api_calls, cost_history, pc, mode, user_input,
          max_attempts, is_raw, attempt, error_context, code, metadata, trace, outcome,
          requests, cost0, calls0, exception, dataset, execLast, execCalls,
          sharedConn, sessDf, sessPc, sessResult, sessQueries, fnPc, fnCall, fnRet,
          libFile, libLast, libSaved, libOps,
          handled,
          savePc, saveQueries,
          sysStdout, outBuffer, outPc, outRet, console>>

(***************************************************************************)
(* Python values                                                           *)
(***************************************************************************)
NoneVal == [kind |-> "None"]
Str(s) == [kind |-> "str", s |-> s]

\* bool(x) of a value that is None or a str: `if error:`
Truthy(v) == v.kind = "str" /\ v.s # ""

(***************************************************************************)
(* Python str methods                                                      *)
(***************************************************************************)
Whitespace == {" ", "\n", "\t"}
LowerLetters == "abcdefghijklmnopqrstuvwxyz"
UpperLetters == "ABCDEFGHIJKLMNOPQRSTUVWXYZ"

CharAt(s, i) == SubSeq(s, i, i)

RECURSIVE LStrip(_)
LStrip(s) ==
    IF s # "" /\ CharAt(s, 1) \in Whitespace
    THEN LStrip(SubSeq(s, 2, Len(s)))
    ELSE s

RECURSIVE RStrip(_)
RStrip(s) ==
    IF s # "" /\ CharAt(s, Len(s)) \in Whitespace
    THEN RStrip(SubSeq(s, 1, Len(s) - 1))
    ELSE s

\* str.strip()
Strip(s) == RStrip(LStrip(s))

UpperChar(c) ==
    IF \E i \in 1..26 : CharAt(LowerLetters, i) = c
    THEN CharAt(UpperLetters, CHOOSE i \in 1..26 : CharAt(LowerLetters, i) = c)
    ELSE c

LowerChar(c) ==
    IF \E i \in 1..26 : CharAt(UpperLetters, i) = c
    THEN CharAt(LowerLetters, CHOOSE i \in 1..26 : CharAt(UpperLetters, i) = c)
    ELSE c

RECURSIVE Upper(_)
\* str.upper()
Upper(s) == IF s = "" THEN "" ELSE UpperChar(CharAt(s, 1)) \o Upper(SubSeq(s, 2, Len(s)))

RECURSIVE Lower(_)
\* str.lower()
Lower(s) == IF s = "" THEN "" ELSE LowerChar(CharAt(s, 1)) \o Lower(SubSeq(s, 2, Len(s)))

\* str.startswith(p)
StartsWith(s, p) == Len(s) >= Len(p) /\ SubSeq(s, 1, Len(p)) = p

\* p in s
Contains(s, p) == \E i \in 1..(Len(s) - Len(p) + 1) : SubSeq(s, i, i + Len(p) - 1) = p

(***************************************************************************)
(* CodeExecutor.execute_sql                                                *)
(***************************************************************************)
\* What a call returns, with the calls it made on the query engine.
Ret(result, error, nRegister, nExecute) ==
    [result |-> result, error |-> error,
     registerCalls |-> nRegister, executeCalls |-> nExecute]

\* A pandas DataFrame: column labels and rows of cells.  A label or a cell is
\* [type, text]: its Python type ("str", "int", "list") and its str().
Cell(type, text) == [type |-> type, text |-> text]
DataFrame(columns, rows) == [kind |-> "DataFrame", columns |-> columns, rows |-> rows]

\* Tables the query engine returns for the statements of the model: DuckDB
\* labels its columns with strings.
EngineResults ==
    { DataFrame(<<Cell("str", "name"), Cell("str", "age")>>, <<>>),
      DataFrame(<<Cell("str", "n")>>, << <<Cell("int", "10")>> >>),
      DataFrame(<<Cell("str", "name"), Cell("str", "age")>>,
                << <<Cell("str", "Ann"), Cell("int", "31")>>,
                   <<Cell("str", "Bob"), Cell("int", "31")>> >>) }

\* str(e) of what the query engine raises.
EngineErrors == { "Catalog Error: Table with name orders does not exist!",
                  "Parser Error: syntax error at end of input" }

\* a plausible slip: the whole word EXECUTE in place of EXEC
dangerous_keywords_execute ==
    << "DROP", "DELETE", "UPDATE", "INSERT", "ALTER",
       "CREATE", "TRUNCATE", "GRANT", "REVOKE", "EXECUTE" >>

dangerous_keywords ==
    << "DROP", "DELETE", "UPDATE", "INSERT", "ALTER",
       "CREATE", "TRUNCATE", "GRANT", "REVOKE", "EXEC" >>

\* the `for keyword in dangerous_keywords: if keyword in code_upper` loop:
\* the index of the first keyword found, 0 when none is
FirstDangerous(code_upper) ==
    IF \E i \in 1..Len(dangerous_keywords) : Contains(code_upper, dangerous_keywords[i])
    THEN CHOOSE i \in 1..Len(dangerous_keywords) :
            /\ Contains(code_upper, dangerous_keywords[i])
            /\ \A j \in 1..(i - 1) : ~Contains(code_upper, dangerous_keywords[j])
    ELSE 0

OnlySelectMsg == "Only SELECT queries are allowed in SQL mode"
DangerousMsg(keyword) == "Dangerous keyword '" \o keyword \o "' is not allowed"

\* the try block: conn.register('df', df); conn.execute(code).df()
RunOnEngine(src) ==
    { Ret(NoneVal, Str(e), 1, 0) : e \in EngineErrors }
    \cup { Ret(NoneVal, Str(e), 1, 1) : e \in EngineErrors }
    \cup { Ret(r, NoneVal, 1, 1) : r \in EngineResults }

\* A plausible slip: the dataset is bound on the engine before the checks.
execute_sql_registers_first(src) ==
    LET code_upper == Upper(Strip(src)) IN
    IF ~StartsWith(code_upper, "SELECT")
    THEN { Ret(NoneVal, Str(OnlySelectMsg), 1, 0) }
    ELSE IF FirstDangerous(code_upper) # 0
    THEN { Ret(NoneVal, Str(DangerousMsg(dangerous_keywords[FirstDangerous(code_upper)])), 1, 0) }
    ELSE RunOnEngine(src)

\* execute_sql(conn, df, code): the set of outcomes the call can have, the
\* query engine's answer being the only choice.
execute_sql(src) ==
    LET code_upper == Upper(Strip(src)) IN
    IF ~StartsWith(code_upper, "SELECT")
    THEN { Ret(NoneVal, Str(OnlySelectMsg), 0, 0) }
    ELSE IF FirstDangerous(code_upper) # 0
    THEN { Ret(NoneVal, Str(DangerousMsg(dangerous_keywords[FirstDangerous(code_upper)])), 0, 0) }
    ELSE RunOnEngine(src)

(***************************************************************************)
(* CodeExecutor.execute_python                                             *)
(***************************************************************************)
forbidden_patterns ==
    << "os.system", "subprocess", "eval(", "exec(", "__import__", "compile", "open(" >>

\* the `for pattern in forbidden_patterns: if pattern in code_lower` loop
FirstForbidden(code_lower) ==
    IF \E i \in 1..Len(forbidden_patterns) : Contains(code_lower, forbidden_patterns[i])
    THEN CHOOSE i \in 1..Len(forbidden_patterns) :
            /\ Contains(code_lower, forbidden_patterns[i])
            /\ \A j \in 1..(i - 1) : ~Contains(code_lower, forbidden_patterns[j])
    ELSE 0

ForbiddenMsg(pattern) ==
    "Forbidden operation: '" \o pattern \o "' is not allowed for safety"

\* What execute_python returns on success: {'output', 'fig', 'namespace'}.
\* fig is whether a figure is bound; namespace lists (name, value) in
\* insertion order, or is None.
PyResult(output, fig, namespace) ==
    [kind |-> "dict", output |-> output, fig |-> fig, namespace |-> namespace]
Namespace(items) == [kind |-> "dict", items |-> items]
Other == [kind |-> "other"]

TwoRows ==
    DataFrame(<<Cell("str", "name"), Cell("str", "age")>>,
              << <<Cell("str", "Ann"), Cell("int", "31")>>,
                 <<Cell("str", "Bob"), Cell("int", "31")>> >>)

\* what a script that runs to its end leaves behind
ScriptResults ==
    { PyResult(Str("10\n"), FALSE, Namespace(<<>>)),
      PyResult(Str(""), TRUE, Namespace(<<[name |-> "top", value |-> TwoRows]>>)) }

\* str(e) of what a script can raise: a failed assert without a message gives
\* str(AssertionError()), the empty string; an unbound name gives a NameError
ScriptErrors(src) ==
    IF Contains(src, "assert ") THEN { "" } ELSE { "name 'orders' is not defined" }

\* a script whose exec never comes back: nothing bounds exec(code, namespace)
NeverEnds(src) == Contains(src, "while True:")

\* execute_python(conn, df, code): the set of outcomes the call can have,
\* the script's own behaviour being the only choice; a script that never
\* ends has no outcome, the call does not return.
execute_python(src) ==
    LET code_lower == Lower(src) IN
    IF FirstForbidden(code_lower) # 0
    THEN { Ret(NoneVal, Str(ForbiddenMsg(forbidden_patterns[FirstForbidden(code_lower)])), 0, 0) }
    ELSE IF NeverEnds(src) THEN {}
    ELSE { Ret(r, NoneVal, 0, 0) : r \in ScriptResults }
         \cup { Ret(NoneVal, Str(e), 0, 0) : e \in ScriptErrors(src) }

(***************************************************************************)
(* Input detection (utils/helper.py)                                       *)
(***************************************************************************)
unambiguous_keywords == << "CREATE ", "ALTER ", "DROP ", "INSERT ", "UPDATE ", "DELETE " >>

is_raw_sql(text) ==
    LET text_stripped == Upper(Strip(text)) IN
    \/ StartsWith(text_stripped, "SELECT") /\ Contains(text_stripped, " FROM ")
    \/ StartsWith(text_stripped, "WITH") /\ Contains(text_stripped, " AS ")
    \/ \E i \in 1..Len(unambiguous_keywords) : StartsWith(text_stripped, unambiguous_keywords[i])

\* a plausible slip: every indicator tested as a prefix
is_raw_python_prefix_only(text) ==
    LET text_stripped == Strip(text) IN
    \/ StartsWith(text_stripped, "import ")
    \/ StartsWith(text_stripped, "from ")
    \/ StartsWith(text_stripped, "def ")
    \/ StartsWith(text_stripped, "class ")
    \/ StartsWith(text_stripped, "pd.")
    \/ StartsWith(text_stripped, "px.")
    \/ StartsWith(text_stripped, "df.")
    \/ StartsWith(text_stripped, "df[")
    \/ StartsWith(text_stripped, ".plot(")
    \/ StartsWith(text_stripped, ".groupby(")

is_raw_python(text) ==
    LET text_stripped == Strip(text) IN
    \/ StartsWith(text_stripped, "import ")
    \/ StartsWith(text_stripped, "from ")
    \/ StartsWith(text_stripped, "def ")
    \/ StartsWith(text_stripped, "class ")
    \/ Contains(text_stripped, "pd.")
    \/ Contains(text_stripped, "px.")
    \/ Contains(text_stripped, "df.")
    \/ Contains(text_stripped, "df[")
    \/ Contains(text_stripped, ".plot(")
    \/ Contains(text_stripped, ".groupby(")

(***************************************************************************)
(* ContextManager                                                          *)
(***************************************************************************)
MAX_MESSAGE_LENGTH == 500
DEFAULT_CONTEXT_LIMIT == 5

\* an exception leaving a function
Raise(exc) == [kind |-> "raise", exc |-> exc]

RECURSIVE Rep(_, _)
\* s * n
Rep(s, n) ==
    IF n = 0 THEN ""
    ELSE IF n % 2 = 0 THEN LET h == Rep(s, n \div 2) IN h \o h
    ELSE s \o Rep(s, n - 1)

Digits == "0123456789"

RECURSIVE IntToStr(_)
\* str(n) of an int n >= 0, as an f-string formats it
IntToStr(n) ==
    IF n < 10 THEN CharAt(Digits, n + 1)
    ELSE IntToStr(n \div 10) \o CharAt(Digits, (n % 10) + 1)

RECURSIVE Join(_, _)
\* sep.join(parts)
Join(sep, parts) ==
    IF Len(parts) = 0 THEN ""
    ELSE IF Len(parts) = 1 THEN parts[1]
    ELSE parts[1] \o sep \o Join(sep, Tail(parts))

\* position of the first line break of s, 0 when it has none
FirstBreak(s) ==
    IF \E i \in 1..Len(s) : CharAt(s, i) = "\n"
    THEN CHOOSE i \in 1..Len(s) :
            /\ CharAt(s, i) = "\n"
            /\ \A j \in 1..(i - 1) : CharAt(s, j) # "\n"
    ELSE 0

RECURSIVE SplitLines(_)
\* s.split('\n')
SplitLines(s) ==
    IF FirstBreak(s) = 0 THEN <<s>>
    ELSE <<SubSeq(s, 1, FirstBreak(s) - 1)>> \o SplitLines(SubSeq(s, FirstBreak(s) + 1, Len(s)))

\* seq[:n]
Take(seq, n) == SubSeq(seq, 1, IF n < Len(seq) THEN n ELSE Len(seq))

\* seq[start:] for any int start, as Python slices
SliceFrom(seq, start) ==
    LET n == Len(seq)
        begin == IF start < 0
                 THEN (IF n + start < 0 THEN 0 ELSE n + start)
                 ELSE (IF start > n THEN n ELSE start)
    IN SubSeq(seq, begin + 1, n)

\* the closing `if len(text) > MAX_MESSAGE_LENGTH: text = text[:MAX_MESSAGE_LENGTH] + "..."`
Truncate(text) ==
    IF Len(text) > MAX_MESSAGE_LENGTH
    THEN SubSeq(text, 1, MAX_MESSAGE_LENGTH) \o "..."
    ELSE text

\* df[col]: the cells of column number c
Column(df, c) == [r \in 1..Len(df.rows) |-> df.rows[r][c]]

\* df[col].unique(): the distinct cells in order of first appearance
Unique(col) ==
    LET first == { i \in 1..Len(col) : \A j \in 1..(i - 1) : col[j] # col[i] }
        Nth(k) == CHOOSE i \in first : Cardinality({ j \in first : j < i }) = k - 1
    IN [k \in 1..Cardinality(first) |-> col[Nth(k)]]

\* the `for col in df.columns[:3]` loop: one pattern text per column, "" for none
Pattern(df, c) ==
    LET col == Column(df, c)
        label == df.columns[c].text
        values == Unique(col)
        unique_count == Len(values)
    IN IF unique_count = 1 THEN "All " \o label \o "=" \o col[1].text
       ELSE IF unique_count <= 3
       THEN label \o " values: " \o Join(", ", [k \in 1..Len(values) |-> values[k].text])
       ELSE ""

\* the `if isinstance(val, str) and len(val) > 20` elision of a sample cell
SampleValue(cell) ==
    IF cell.type = "str" /\ Len(cell.text) > 20
    THEN SubSeq(cell.text, 1, 20) \o "..."
    ELSE cell.text

SampleRow(df, r) ==
    Join(", ", [c \in 1..Len(Take(df.columns, 4)) |->
                    df.columns[c].text \o "=" \o SampleValue(df.rows[r][c])])

\* _format_dataframe_compact(df): the text, or the exception it raises.
\* The multiplication sign of the source text is written x here.
_format_dataframe_compact(df) ==
    IF df.kind # "DataFrame" THEN Raise("AttributeError")
    ELSE IF Len(df.rows) = 0 \/ Len(df.columns) = 0 THEN Str("Empty result (0 rows)")
    ELSE IF \E c \in 1..Len(Take(df.columns, 10)) : df.columns[c].type # "str"
    THEN Raise("TypeError")
    ELSE IF \E c \in 1..Len(Take(df.columns, 3)) :
                \E r \in 1..Len(df.rows) : df.rows[r][c].type = "list"
    THEN Raise("TypeError")
    ELSE
    LET ncols == Len(df.columns)
        head == "Results: " \o IntToStr(Len(df.rows)) \o " rows x "
                    \o IntToStr(ncols) \o " columns"
        first10 == Join(", ", [c \in 1..Len(Take(df.columns, 10)) |-> df.columns[c].text])
        col_names == IF ncols > 10
                     THEN first10 \o ", ... (" \o IntToStr(ncols - 10) \o " more)"
                     ELSE first10
        allPatterns == [c \in 1..Len(Take(df.columns, 3)) |-> Pattern(df, c)]
        patterns == SelectSeq(allPatterns, LAMBDA p : p # "")
        sample_size == IF Len(df.rows) < 2 THEN Len(df.rows) ELSE 2
        sample_rows == [r \in 1..sample_size |-> SampleRow(df, r)]
        parts == <<head, "Columns: " \o col_names>>
                 \o (IF Len(patterns) > 0
                     THEN <<"Patterns: " \o Join("; ", patterns)>> ELSE <<>>)
                 \o (IF Len(sample_rows) > 0
                     THEN <<"Sample: " \o Join(" | ", sample_rows)>> ELSE <<>>)
    IN Str(Truncate(Join("\n", parts)))

\* _format_python_compact(result): the text, or the exception it raises
_format_python_compact(result) ==
    IF result.kind # "dict" THEN Raise("AttributeError")
    ELSE IF result.namespace.kind # "dict" THEN Raise("AttributeError")
    ELSE
    LET all == SplitLines(result.output.s)
        lines == Take(all, 5)
        truncated == IF Len(lines) < Len(all)
                     THEN Join("\n", lines) \o "\n... (truncated)"
                     ELSE Join("\n", lines)
        items == result.namespace.items
        frames == SelectSeq(items, LAMBDA it : it.value.kind = "DataFrame")
        parts == (IF Truthy(result.output) THEN <<"Output:\n" \o truncated>> ELSE <<>>)
                 \o (IF result.fig THEN <<"Generated chart (Plotly figure)">> ELSE <<>>)
                 \o [k \in 1..Len(frames) |->
                        "Created DataFrame '" \o frames[k].name \o "': "
                        \o IntToStr(Len(frames[k].value.rows)) \o " rows x "
                        \o IntToStr(Len(frames[k].value.columns)) \o " columns"]
    IN IF Len(parts) = 0 THEN Str("Code executed successfully (no output)")
       ELSE Str(Truncate(Join("\n", parts)))

Turn(role, content, lang) == [role |-> role, content |-> content, mode |-> lang]

\* the 20 blanks that indent the lines of the f-string templates
Indent == Rep(" ", 20)

\* add_user_message(text, mode): the new self.messages
add_user_message(msgs, text, lang) == Append(msgs, Turn("user", text, lang))

\* the f-string of add_sql_result / add_python_result; the three backquotes
\* of a code fence are written ~~~ here
ExecutedTemplate(title, fence, src, result_context) ==
    "Executed " \o title \o ":\n"
    \o Indent \o "~~~" \o fence \o "\n"
    \o Indent \o src \o "\n"
    \o Indent \o "~~~\n"
    \o Indent \o result_context \o "\n"
    \o Indent

\* add_sql_result(code, result_df): the new self.messages, or the exception
add_sql_result(msgs, src, result_df) ==
    LET result_context == _format_dataframe_compact(result_df) IN
    IF result_context.kind = "raise" THEN result_context
    ELSE [kind |-> "ok",
          messages |-> Append(msgs,
              Turn("assistant", ExecutedTemplate("SQL", "sql", src, result_context.s), "sql"))]

\* add_python_result(code, result): the new self.messages, or the exception
add_python_result(msgs, src, result) ==
    LET result_context == _format_python_compact(result) IN
    IF result_context.kind = "raise" THEN result_context
    ELSE [kind |-> "ok",
          messages |-> Append(msgs,
              Turn("assistant",
                   ExecutedTemplate("Python", "python", src, result_context.s), "python"))]

\* add_error(code, error, mode): the new self.messages
add_error(msgs, src, error, lang) ==
    Append(msgs, Turn("assistant", Upper(lang) \o ":\n" \o src \o "\n\nError: " \o error, lang))

\* get_context_for_ai(limit)
get_context_for_ai(msgs, limit) ==
    IF Len(msgs) > 0 THEN SliceFrom(msgs, 0 - limit) ELSE <<>>

(***************************************************************************)
(* The session's dataset (state.df) across executor calls                  *)
(***************************************************************************)
\* state.df after DataSourceManager.load: columns name and age, two rows
LoadedDataset == TwoRows

HasColumn(d, name) == \E i \in 1..Len(d.columns) : d.columns[i].text = name

\* df[name] = 1 on the object: a new column at the end, or the column overwritten
SetColumn(d, name) ==
    IF HasColumn(d, name)
    THEN DataFrame(d.columns,
                   [r \in 1..Len(d.rows) |->
                       [c \in 1..Len(d.columns) |->
                           IF d.columns[c].text = name THEN Cell("int", "1") ELSE d.rows[r][c]]])
    ELSE DataFrame(Append(d.columns, Cell("str", name)),
                   [r \in 1..Len(d.rows) |-> Append(d.rows[r], Cell("int", "1"))])

\* the positions of the columns other than name
RECURSIVE KeptColumns(_, _, _)
KeptColumns(d, name, c) ==
    IF c > Len(d.columns) THEN <<>>
    ELSE (IF d.columns[c].text = name THEN <<>> ELSE <<c>>) \o KeptColumns(d, name, c + 1)

\* df.drop(columns=[name], inplace=True) on the object
DropColumn(d, name) ==
    LET kept == KeptColumns(d, name, 1) IN
    DataFrame([i \in 1..Len(kept) |-> d.columns[kept[i]]],
              [r \in 1..Len(d.rows) |-> [i \in 1..Len(kept) |-> d.rows[r][kept[i]]]])

\* df.head(n): a new object
HeadRows(d, n) == DataFrame(d.columns, Take(d.rows, n))

\* One statement of a script run by exec(code, namespace), namespace['df']
\* being the caller's DataFrame object itself (no copy is made): obj is the
\* caller's object, loc the object the name df is bound to in the namespace,
\* alias whether the two are still the same object.
ExecStatement(st, line) ==
    IF st.err # NoneVal THEN st
    ELSE IF line = "df['flag'] = 1"
    THEN [st EXCEPT !.loc = SetColumn(st.loc, "flag"),
                    !.obj = IF st.alias THEN SetColumn(st.loc, "flag") ELSE st.obj]
    ELSE IF line = "df.drop(columns=['age'], inplace=True)"
    THEN IF HasColumn(st.loc, "age")
         THEN [st EXCEPT !.loc = DropColumn(st.loc, "age"),
                         !.obj = IF st.alias THEN DropColumn(st.loc, "age") ELSE st.obj]
         ELSE [st EXCEPT !.err = Str("\"['age'] not found in axis\"")]
    ELSE IF line = "df = df.head(1)"
    THEN [st EXCEPT !.loc = HeadRows(st.loc, 1), !.alias = FALSE]
    ELSE IF line = "print(len(df))"
    THEN [st EXCEPT !.out = st.out \o IntToStr(Len(st.loc.rows)) \o "\n"]
    ELSE [st EXCEPT !.err = Str("name 'orders' is not defined")]

RECURSIVE ExecStatements(_, _)
ExecStatements(st, lines) ==
    IF Len(lines) = 0 THEN st
    ELSE ExecStatements(ExecStatement(st, lines[1]), Tail(lines))

\* execute_python(conn, df, code) seen from the caller: what it returns and
\* what the caller's df is afterwards
execute_python_on(d, src) ==
    IF FirstForbidden(Lower(src)) # 0
    THEN [dataset |-> d,
          ret |-> Ret(NoneVal, Str(ForbiddenMsg(forbidden_patterns[FirstForbidden(Lower(src))])), 0, 0)]
    ELSE LET st == ExecStatements([obj |-> d, loc |-> d, alias |-> TRUE, out |-> "",
                                   err |-> NoneVal],
                                  SplitLines(src))
         IN [dataset |-> st.obj,
             ret |-> IF st.err # NoneVal
                     THEN Ret(NoneVal, st.err, 0, 0)
                     ELSE Ret(PyResult(Str(st.out), FALSE, Namespace(<<>>)), NoneVal, 0, 0)]

\* no executor call is in progress or has been made
DataIdle ==
    /\ dataset = LoadedDataset
    /\ execLast = [op |-> "init"]
    /\ execCalls = 0

(***************************************************************************)
(* Sessions: Streamlit runs main() for every browser session in a thread   *)
(* of one process                                                          *)
(***************************************************************************)
Sessions == { 1, 2 }

\* what DataSourceManager.load returns after the cache (ttl=3600) has expired
\* and the source has gained a row
ReloadedDataset ==
    DataFrame(LoadedDataset.columns,
              Append(LoadedDataset.rows, <<Cell("str", "Cy"), Cell("int", "40")>>))

\* duckdb.connect(':memory:') before any register
NoView == NoneVal

\* no session has started
SessionsIdle ==
    /\ sharedConn = NoView
    /\ sessDf = [u \in Sessions |-> LoadedDataset]
    /\ sessPc = [u \in Sessions |-> "idle"]
    /\ sessResult = [u \in Sessions |-> NoneVal]
    /\ sessQueries = [u \in Sessions |-> 0]

\* QueryLibrary.__init__ on a fresh data directory: _save_queries([])
LibIdle ==
    /\ libFile = <<>>
    /\ libLast = [op |-> "init"]
    /\ libSaved = <<>>
    /\ libOps = 0

\* no request has run code as given
LoadedIdle ==
    handled = <<>>

\* no session is inside QueryLibrary.save
SavesIdle ==
    /\ savePc = [u \in Sessions |-> "idle"]
    /\ saveQueries = [u \in Sessions |-> <<>>]

\* no session is inside execute_python, sys.stdout is the real one
StdoutIdle ==
    /\ sysStdout = 0
    /\ outBuffer = [u \in Sessions |-> ""]
    /\ outPc = [u \in Sessions |-> [at |-> "idle", printed |-> 0]]
    /\ outRet = [u \in Sessions |-> NoneVal]
    /\ console = ""

\* the variables of the later specifications at rest
LaterIdle ==
    /\ LoadedIdle
    /\ SavesIdle
    /\ StdoutIdle

\* no function is being called on its own
FnIdle ==
    /\ fnPc = "idle"
    /\ fnCall = NoneVal
    /\ fnRet = NoneVal

\* the state of the executor, the context manager and the handler when none
\* of them is in use
CoreIdle ==
    /\ sqlPc = "call"
    /\ sqlCode = ""
    /\ sqlRet = [result |-> NoneVal, error |-> NoneVal, registerCalls |-> 0, executeCalls |-> 0]
    /\ messages = <<>>
    /\ ctxLast = [op |-> "init"]
    /\ ctxOps = 0
    /\ display_messages = <<>>
    /\ total_cost = 0
    /\ api_calls = 0
    /\ cost_history = <<>>
    /\ pc = "idle"
    /\ mode = "sql"
    /\ user_input = ""
    /\ max_attempts = 2
    /\ is_raw = FALSE
    /\ attempt = 0
    /\ error_context = NoneVal
    /\ code = ""
    /\ metadata = NoneVal
    /\ trace = <<>>
    /\ outcome = "none"
    /\ requests = 0
    /\ cost0 = 0
    /\ calls0 = 0
    /\ exception = NoneVal

(***************************************************************************)
(* SpecSql: execute_sql applied to a statement                             *)
(***************************************************************************)
Leads == { "", " ", "\n  " }
Heads == { "SELECT", "select", "Select", "WITH t AS (SELECT", "DROP TABLE df; SELECT",
           "SELEC", "EXPLAIN SELECT", "" }
Bodies == { " * FROM df", " name FROM df WHERE age > 3", " exec_time FROM df",
            " created_at FROM df", " * FROM df; DROP TABLE df",
            " 'please delete me' AS note", " * FROM orders", " execute FROM df",
            " dropped, Updated FROM df", " COUNT(*) FROM df GROUP BY grant_id",
            " * FROM df) SELECT * FROM t" }
Tails == { "", ";", " \n" }

Statements == { l \o h \o b \o t : l \in Leads, h \in Heads, b \in Bodies, t \in Tails }

NotCalled == Ret(NoneVal, NoneVal, 0, 0)

InitSql ==
    /\ sqlPc = "call"
    /\ sqlCode \in Statements
    /\ sqlRet = NotCalled
    /\ messages = <<>>
    /\ ctxLast = [op |-> "init"]
    /\ ctxOps = 0
    /\ display_messages = <<>>
    /\ total_cost = 0
    /\ api_calls = 0
    /\ cost_history = <<>>
    /\ pc = "idle"
    /\ mode = "sql"
    /\ user_input = ""
    /\ max_attempts = 2
    /\ is_raw = FALSE
    /\ attempt = 0
    /\ error_context = NoneVal
    /\ code = ""
    /\ metadata = NoneVal
    /\ trace = <<>>
    /\ outcome = "none"
    /\ requests = 0
    /\ cost0 = 0
    /\ calls0 = 0
    /\ exception = NoneVal
    /\ DataIdle
    /\ SessionsIdle
    /\ FnIdle
    /\ LibIdle
    /\ LaterIdle

CallExecuteSql ==
    /\ sqlPc = "call"
    /\ \E o \in execute_sql(sqlCode) : sqlRet' = o
    /\ sqlPc' = "ret"
    /\ UNCHANGED sqlCode

\* the caller takes the result and passes the next statement
NextStatement ==
    /\ sqlPc = "ret"
    /\ \E c \in Statements : sqlCode' = c
    /\ sqlPc' = "call"
    /\ sqlRet' = NotCalled

NextSql ==
    \/ CallExecuteSql /\ UNCHANGED <<cvars, hvars, xvars>>
    \/ NextStatement /\ UNCHANGED <<cvars, hvars, xvars>>

SpecSql == InitSql /\ [][NextSql]_vars

(***************************************************************************)
(* SpecCtx: the operations of a ContextManager applied in any order        *)
(***************************************************************************)
MaxCtxOps == 2
MaxLimit == 3

ShortCode == "SELECT * FROM df"
LongCode == "SELECT " \o Rep("amount, ", 70) \o "1 FROM df"

CtxUserInputs == { <<"show me the top orders", "sql">>, <<"df.head()", "python">> }

\* 12 columns with long labels, one row
WideFrame ==
    DataFrame([c \in 1..12 |-> Cell("str", "measurement_" \o Rep("x", 45) \o IntToStr(c))],
              << [c \in 1..12 |-> Cell("int", IntToStr(c))] >>)

\* pd.DataFrame([[1]]): the label is the int 0
IntLabelFrame == DataFrame(<<Cell("int", "0")>>, << <<Cell("int", "1")>> >>)

\* a column of lists, as a LIST column of the engine is
ListCellFrame == DataFrame(<<Cell("str", "tags")>>, << <<Cell("list", "[1, 2]")>> >>)

\* a long text cell and five distinct values in a column
LongCellFrame ==
    DataFrame(<<Cell("str", "note"), Cell("str", "k")>>,
              [r \in 1..5 |-> <<Cell("str", "a rather long free-text note"),
                                Cell("int", IntToStr(r))>>])

CtxFrames ==
    EngineResults \cup { WideFrame, IntLabelFrame, ListCellFrame, LongCellFrame, NoneVal }

CtxPyResults ==
    { NoneVal,
      PyResult(Str("10\n"), FALSE, Namespace(<<>>)),
      PyResult(Str(""), FALSE, Namespace(<<>>)),
      PyResult(Str(""), TRUE, Namespace(<<[name |-> "top", value |-> TwoRows],
                                          [name |-> "n", value |-> Other]>>)),
      PyResult(Str("1\n2\n3\n4\n5\n6"), FALSE, Namespace(<<>>)),
      PyResult(Str("1\n2\n3\n4\n5\n"), FALSE, Namespace(<<>>)),
      PyResult(Str(Rep("0123456789", 60)), FALSE, Namespace(<<>>)),
      PyResult(NoneVal, FALSE, NoneVal) }

LongError == "Binder Error: " \o Rep("candidate binding; ", 30)
CtxErrors == { "", "Parser Error: syntax error at end of input", LongError }

InitCtx ==
    /\ messages = <<>>
    /\ ctxLast = [op |-> "init"]
    /\ ctxOps = 0
    /\ sqlPc = "call"
    /\ sqlCode = ""
    /\ sqlRet = NotCalled
    /\ display_messages = <<>>
    /\ total_cost = 0
    /\ api_calls = 0
    /\ cost_history = <<>>
    /\ pc = "idle"
    /\ mode = "sql"
    /\ user_input = ""
    /\ max_attempts = 2
    /\ is_raw = FALSE
    /\ attempt = 0
    /\ error_context = NoneVal
    /\ code = ""
    /\ metadata = NoneVal
    /\ trace = <<>>
    /\ outcome = "none"
    /\ requests = 0
    /\ cost0 = 0
    /\ calls0 = 0
    /\ exception = NoneVal
    /\ DataIdle
    /\ SessionsIdle
    /\ FnIdle
    /\ LibIdle
    /\ LaterIdle

\* what an operation that returns a new message list or raises leaves behind
ApplyAdd(op, input, out) ==
    /\ ctxOps < MaxCtxOps
    /\ ctxOps' = ctxOps + 1
    /\ IF out.kind = "raise"
       THEN /\ messages' = messages
            /\ ctxLast' = [op |-> op, input |-> input, raised |-> TRUE, ret |-> out]
       ELSE /\ messages' = out.messages
            /\ ctxLast' = [op |-> op, input |-> input, raised |-> FALSE, ret |-> NoneVal]

CtxAddUserMessage ==
    \E in \in CtxUserInputs :
        ApplyAdd("add_user_message", in,
                 [kind |-> "ok", messages |-> add_user_message(messages, in[1], in[2])])

CtxAddSqlResult ==
    \E in \in ({ShortCode} \X CtxFrames) \cup {<<LongCode, TwoRows>>} :
        ApplyAdd("add_sql_result", in, add_sql_result(messages, in[1], in[2]))

CtxAddPythonResult ==
    \E in \in {"df.head()"} \X CtxPyResults :
        ApplyAdd("add_python_result", in, add_python_result(messages, in[1], in[2]))

CtxAddError ==
    \E in \in ({ShortCode} \X CtxErrors \X {"sql"}) \cup {<<"df.head()", "", "python">>} :
        ApplyAdd("add_error", in,
                 [kind |-> "ok", messages |-> add_error(messages, in[1], in[2], in[3])])

CtxGetContextForAi ==
    \E limit \in (0..MaxLimit) \cup {DEFAULT_CONTEXT_LIMIT} :
        /\ ctxLast' = [op |-> "get_context_for_ai", input |-> limit, raised |-> FALSE,
                       ret |-> get_context_for_ai(messages, limit)]
        /\ UNCHANGED <<messages, ctxOps>>

NextCtx ==
    \/ CtxAddUserMessage /\ UNCHANGED <<svars, hvars, xvars>>
    \/ CtxAddSqlResult /\ UNCHANGED <<svars, hvars, xvars>>
    \/ CtxAddPythonResult /\ UNCHANGED <<svars, hvars, xvars>>
    \/ CtxAddError /\ UNCHANGED <<svars, hvars, xvars>>
    \/ CtxGetContextForAi /\ UNCHANGED <<svars, hvars, xvars>>

SpecCtx == InitCtx /\ [][NextCtx]_vars

(***************************************************************************)
(* handle_code_mode (utils/helper.py), called by render_input_area         *)
(***************************************************************************)
MaxRequests == 2
MaxAttemptsCap == 2

\* (mode, text) typed into the chat input
UserInputs ==
    { <<"sql", "show me the top orders">>, <<"sql", "SELECT * FROM orders">>,
      <<"python", "count the rows">>, <<"python", "df.head()">> }

\* the code the generator hands back, one statement refused by the executor
\* in each mode
GeneratedCode(lang) ==
    IF lang = "sql"
    THEN { "SELECT * FROM orders", "DELETE FROM df" }
    ELSE { "print(len(orders))", "assert len(df) > 100", "fig = eval('px.bar(df)')",
           "while True:\n    pass" }

GenerationCosts == { 0, 3 }

\* GenerationMetadata; the token counts travel with the cost and are left out
DirectMetadata == [model |-> "none", cost |-> 0, source |-> "direct"]
GeneratedMetadata(c) == [model |-> "gpt-5-nano", cost |-> c, source |-> "generated"]

\* main() builds a new ContextManager on every script run
FreshContextManager == <<>>

\* a plausible slip: user-written code is retried like generated code
RetriesOnError_direct_too(raw, n, max) == n < max

\* whether a failed execution leads to another generation: never for
\* user-written code, and `if attempt < max_attempts` for generated code
RetriesOnError(raw, n, max) == ~raw /\ n < max

\* while attempt <= max_attempts
LoopCondition(n, max) == n <= max

\* a plausible slip: the attempt counter is not advanced
NextAttempt_stuck(n) == n

\* attempt += 1
NextAttempt(n) == n + 1

\* state.total_cost += metadata.cost
AddCost(total, c) == total + c

\* error_context = {"failed_query": code, "error": error}
RetryContext(src, error) == [kind |-> "dict", failed_query |-> src, error |-> error]

\* executor.execute_sql / executor.execute_python by mode
Run(lang, src) == IF lang = "sql" THEN execute_sql(src) ELSE execute_python(src)

GenEvent(n, ctx, sent, raised, c, src) ==
    [ev |-> "gen", attempt |-> n, error_context |-> ctx, sent |-> sent,
     raised |-> raised, cost |-> c, code |-> src]

ExecEvent(n, src, o) ==
    [ev |-> "exec", attempt |-> n, code |-> src, result |-> o.result, error |-> o.error,
     registerCalls |-> o.registerCalls, executeCalls |-> o.executeCalls]

\* the three "update costs" blocks
UpdateCosts(c) ==
    /\ total_cost' = AddCost(total_cost, c)
    /\ api_calls' = api_calls + 1
    /\ cost_history' = IF c > 0
                       THEN Append(cost_history, [model |-> metadata.model, cost |-> c, mode |-> mode])
                       ELSE cost_history

\* what the language-model client can fail with (network, auth)
ApiErrors == { "Connection error.", "Incorrect API key provided: sk-test." }

\* a plausible slip: the underlying error text is dropped
ApiErrorMessage_generic(e) == "OpenAI API error"

\* raise RuntimeError(f"OpenAI API error: {str(e)}")
ApiErrorMessage(e) == "OpenAI API error: " \o e

\* an exception with its message
Exc(type, msg) == [kind |-> "raise", exc |-> type, msg |-> msg]

\* an exception leaves handle_code_mode: Streamlit shows it, the run ends
Crash(e) ==
    /\ pc' = "idle"
    /\ outcome' = "aborted"
    /\ exception' = e
    /\ UNCHANGED <<messages, display_messages, total_cost, api_calls, cost_history,
                   attempt, error_context>>

\* lines 93-148: the user turn, the detection, the start of either branch
Submit ==
    /\ pc = "idle"
    /\ requests < MaxRequests
    /\ \E in \in UserInputs, m \in 1..MaxAttemptsCap :
        LET raw == IF in[1] = "sql" THEN is_raw_sql(in[2]) ELSE is_raw_python(in[2]) IN
        /\ mode' = in[1]
        /\ user_input' = in[2]
        /\ max_attempts' = m
        /\ messages' = add_user_message(FreshContextManager, in[2], in[1])
        /\ display_messages' =
               Append(display_messages, [role |-> "user", content |-> in[2], mode |-> in[1]])
        /\ is_raw' = raw
        /\ IF raw
           THEN /\ code' = Strip(in[2])
                /\ metadata' = DirectMetadata
                /\ attempt' = 0
                /\ pc' = "execute"
           ELSE /\ code' = ""
                /\ metadata' = NoneVal
                /\ attempt' = 1
                /\ pc' = "generate"
    /\ error_context' = NoneVal
    /\ trace' = <<>>
    /\ outcome' = "running"
    /\ requests' = requests + 1
    /\ cost0' = total_cost
    /\ calls0' = api_calls
    /\ exception' = NoneVal
    /\ UNCHANGED <<total_cost, api_calls, cost_history>>

\* the messages generate_sql / generate_python send: the system prompt (the
\* repair prompt when error_context is given), the context, the user text
SentMessages ==
    << [role |-> "system",
        content |-> IF error_context = NoneVal THEN "prompt" ELSE "error retry prompt"] >>
    \o get_context_for_ai(messages, DEFAULT_CONTEXT_LIMIT)
    \o << [role |-> "user", content |-> user_input] >>

\* lines 152-167: the generator returns code and its metadata
Generate ==
    /\ pc = "generate"
    /\ \E src \in GeneratedCode(mode), c \in GenerationCosts :
        /\ code' = src
        /\ metadata' = GeneratedMetadata(c)
        /\ trace' = Append(trace, GenEvent(attempt, error_context, SentMessages, FALSE, c, src))
    /\ pc' = "execute"
    /\ UNCHANGED <<messages, display_messages, total_cost, api_calls, cost_history, mode,
                   user_input, max_attempts, is_raw, attempt, error_context, outcome,
                   requests, cost0, calls0, exception>>

\* lines 152-167: the client call fails, _call_api raises RuntimeError, and
\* neither generate_sql / generate_python nor handle_code_mode nor main
\* catches it
GenerateRaises ==
    /\ pc = "generate"
    /\ trace' = Append(trace, GenEvent(attempt, error_context, SentMessages, TRUE, 0, ""))
    /\ \E e \in ApiErrors : exception' = Exc("RuntimeError", ApiErrorMessage(e))
    /\ pc' = "idle"
    /\ outcome' = "aborted"
    /\ UNCHANGED <<messages, display_messages, total_cost, api_calls, cost_history, mode,
                   user_input, max_attempts, is_raw, attempt, error_context, code, metadata,
                   requests, cost0, calls0>>

\* lines 131-143: user-written code failed
DirectError(error) ==
    /\ messages' = add_error(messages, code, error, mode)
    /\ display_messages' =
           Append(display_messages,
                  [role |-> "assistant", content |-> "Error: " \o error, mode |-> mode,
                   executed_code |-> code, source |-> "direct", error |-> error])
    /\ pc' = "idle"
    /\ outcome' = "direct_failed"
    /\ UNCHANGED <<total_cost, api_calls, cost_history, attempt, error_context, exception>>

\* a plausible slip: every failed attempt recorded in the context
RetryMessages_recorded(msgs, src, error, lang) == add_error(msgs, src, error, lang)

\* lines 190-210: the retry branch shows a warning and calls no context
\* operation, self.messages stays as it is
RetryMessages(msgs, src, error, lang) == msgs

\* lines 190-210: prepare the retry, account the failed attempt, continue
Retry(error) ==
    /\ messages' = RetryMessages(messages, code, error, mode)
    /\ error_context' = RetryContext(code, error)
    /\ attempt' = NextAttempt(attempt)
    /\ UpdateCosts(metadata.cost)
    /\ IF LoopCondition(NextAttempt(attempt), max_attempts)
       THEN pc' = "generate" /\ outcome' = outcome
       ELSE pc' = "idle" /\ outcome' = "aborted"
    /\ UNCHANGED <<display_messages, exception>>

\* lines 211-239: the last attempt failed
Exhausted(error) ==
    /\ messages' = add_error(messages, code, error, mode)
    /\ display_messages' =
           Append(display_messages,
                  [role |-> "assistant",
                   content |-> "Error after " \o IntToStr(max_attempts) \o " attempts: " \o error,
                   mode |-> mode, executed_code |-> code, source |-> metadata.source,
                   error |-> error])
    /\ UpdateCosts(metadata.cost)
    /\ pc' = "idle"
    /\ outcome' = "exhausted"
    /\ UNCHANGED <<attempt, error_context, exception>>

\* lines 247-308: display the result, record it, account the attempt.
\* display_sql_result and display_python_result raise on a result of None;
\* the save button is drawn for the first time and is not pressed.
SuccessPath(result) ==
    IF result.kind = "None"
    THEN Crash(Exc(IF mode = "sql" THEN "TypeError" ELSE "AttributeError", ""))
    ELSE LET added == IF mode = "sql"
                      THEN add_sql_result(messages, code, result)
                      ELSE add_python_result(messages, code, result)
         IN IF added.kind = "raise" THEN Crash(Exc(added.exc, ""))
            ELSE /\ messages' = added.messages
                 /\ display_messages' =
                        Append(display_messages,
                               [role |-> "assistant",
                                content |-> IF mode = "sql" THEN "SQL query executed"
                                            ELSE "Python code executed",
                                mode |-> mode, executed_code |-> code, result |-> result,
                                model |-> metadata.model, cost |-> metadata.cost,
                                source |-> metadata.source])
                 /\ UpdateCosts(metadata.cost)
                 /\ pc' = "idle"
                 /\ outcome' = "succeeded"
                 /\ UNCHANGED <<attempt, error_context, exception>>

\* lines 124-143 and 178-245: the executor is called and its answer handled
Execute ==
    /\ pc = "execute"
    /\ \E o \in Run(mode, code) :
        /\ trace' = Append(trace, ExecEvent(attempt, code, o))
        /\ IF Truthy(o.error)
           THEN IF RetriesOnError(is_raw, attempt, max_attempts) THEN Retry(o.error.s)
                ELSE IF is_raw THEN DirectError(o.error.s)
                ELSE Exhausted(o.error.s)
           ELSE SuccessPath(o.result)
    /\ UNCHANGED <<mode, user_input, max_attempts, is_raw, code, metadata, requests,
                   cost0, calls0>>

Init ==
    /\ messages = <<>>
    /\ ctxLast = [op |-> "init"]
    /\ ctxOps = 0
    /\ sqlPc = "call"
    /\ sqlCode = ""
    /\ sqlRet = NotCalled
    /\ display_messages = <<>>
    /\ total_cost = 0
    /\ api_calls = 0
    /\ cost_history = <<>>
    /\ pc = "idle"
    /\ mode = "sql"
    /\ user_input = ""
    /\ max_attempts = 2
    /\ is_raw = FALSE
    /\ attempt = 0
    /\ error_context = NoneVal
    /\ code = ""
    /\ metadata = NoneVal
    /\ trace = <<>>
    /\ outcome = "none"
    /\ requests = 0
    /\ cost0 = 0
    /\ calls0 = 0
    /\ exception = NoneVal
    /\ DataIdle
    /\ SessionsIdle
    /\ FnIdle
    /\ LibIdle
    /\ LaterIdle


Next ==
    \/ Submit /\ UNCHANGED <<svars, ctxLast, ctxOps, xvars>>
    \/ Generate /\ UNCHANGED <<svars, ctxLast, ctxOps, xvars>>
    \/ GenerateRaises /\ UNCHANGED <<svars, ctxLast, ctxOps, xvars>>
    \/ Execute /\ UNCHANGED <<svars, ctxLast, ctxOps, xvars>>

Spec == Init /\ [][Next]_vars

(***************************************************************************)
(* SpecData: executor calls made one after another on the session's df     *)
(***************************************************************************)
MaxExecCalls == 3

DataScripts ==
    { "print(len(df))",
      "df['flag'] = 1",
      "df.drop(columns=['age'], inplace=True)",
      "df = df.head(1)\ndf['flag'] = 1\nprint(len(df))",
      "df['flag'] = 1\nprint(orders)",
      "fig = eval('px.bar(df)')" }

DataStatements == { "SELECT * FROM df", "DELETE FROM df" }

InitData ==
    /\ dataset = LoadedDataset
    /\ execLast = [op |-> "init"]
    /\ execCalls = 0
    /\ sqlPc = "call"
    /\ sqlCode = ""
    /\ sqlRet = NotCalled
    /\ messages = <<>>
    /\ ctxLast = [op |-> "init"]
    /\ ctxOps = 0
    /\ display_messages = <<>>
    /\ total_cost = 0
    /\ api_calls = 0
    /\ cost_history = <<>>
    /\ pc = "idle"
    /\ mode = "sql"
    /\ user_input = ""
    /\ max_attempts = 2
    /\ is_raw = FALSE
    /\ attempt = 0
    /\ error_context = NoneVal
    /\ code = ""
    /\ metadata = NoneVal
    /\ trace = <<>>
    /\ outcome = "none"
    /\ requests = 0
    /\ cost0 = 0
    /\ calls0 = 0
    /\ exception = NoneVal
    /\ SessionsIdle
    /\ FnIdle
    /\ LibIdle
    /\ LaterIdle

\* executor.execute_python(state.conn, state.df, code)
DataExecutePython ==
    /\ execCalls < MaxExecCalls
    /\ \E src \in DataScripts :
        LET r == execute_python_on(dataset, src) IN
        /\ dataset' = r.dataset
        /\ execLast' = [op |-> "execute_python", code |-> src, before |-> dataset,
                        ret |-> r.ret]
    /\ execCalls' = execCalls + 1

\* executor.execute_sql(state.conn, state.df, code): conn.register reads df
DataExecuteSql ==
    /\ execCalls < MaxExecCalls
    /\ \E src \in DataStatements : \E o \in execute_sql(src) :
        execLast' = [op |-> "execute_sql", code |-> src, before |-> dataset, ret |-> o]
    /\ dataset' = dataset
    /\ execCalls' = execCalls + 1

NextData ==
    \/ DataExecutePython /\ UNCHANGED <<svars, cvars, hvars, ssvars, fvars, lvars, zvars>>
    \/ DataExecuteSql /\ UNCHANGED <<svars, cvars, hvars, ssvars, fvars, lvars, zvars>>

SpecData == InitData /\ [][NextData]_vars

(***************************************************************************)
(* SpecSessions: two sessions run SELECT * FROM df through execute_sql     *)
(***************************************************************************)
MaxQueries == 2

\* each session has loaded its dataset (now, or after the cache expired) and
\* bound state.conn to the one connection init_duckdb caches for the process
InitSessions ==
    /\ sharedConn = NoView
    /\ sessDf \in [Sessions -> {LoadedDataset, ReloadedDataset}]
    /\ sessPc = [u \in Sessions |-> "idle"]
    /\ sessResult = [u \in Sessions |-> NoneVal]
    /\ sessQueries = [u \in Sessions |-> 0]
    /\ CoreIdle
    /\ DataIdle
    /\ FnIdle
    /\ LibIdle
    /\ LaterIdle

\* execute_sql is entered with a statement that passes both checks
SessCall(u) ==
    /\ sessPc[u] = "idle"
    /\ sessQueries[u] < MaxQueries
    /\ sessPc' = [sessPc EXCEPT ![u] = "register"]
    /\ sessQueries' = [sessQueries EXCEPT ![u] = @ + 1]
    /\ sessResult' = [sessResult EXCEPT ![u] = NoneVal]
    /\ UNCHANGED <<sharedConn, sessDf>>

\* conn.register('df', df): the view df of the connection now reads this
\* session's DataFrame
SessRegister(u) ==
    /\ sessPc[u] = "register"
    /\ sharedConn' = sessDf[u]
    /\ sessPc' = [sessPc EXCEPT ![u] = "execute"]
    /\ UNCHANGED <<sessDf, sessResult, sessQueries>>

\* result = conn.execute(code).df(): the rows of whatever the view df holds
SessExecute(u) ==
    /\ sessPc[u] = "execute"
    /\ sessResult' = [sessResult EXCEPT ![u] = sharedConn]
    /\ sessPc' = [sessPc EXCEPT ![u] = "idle"]
    /\ UNCHANGED <<sharedConn, sessDf, sessQueries>>

NextSessions ==
    \/ \E u \in Sessions : SessCall(u) /\ UNCHANGED <<svars, cvars, hvars, dvars, fvars, lvars, zvars>>
    \/ \E u \in Sessions : SessRegister(u) /\ UNCHANGED <<svars, cvars, hvars, dvars, fvars, lvars, zvars>>
    \/ \E u \in Sessions : SessExecute(u) /\ UNCHANGED <<svars, cvars, hvars, dvars, fvars, lvars, zvars>>

SpecSessions == InitSessions /\ [][NextSessions]_vars

(***************************************************************************)
(* AIService._clean_code (core/ai_manager.py)                              *)
(***************************************************************************)
RECURSIVE Replace(_, _, _)
\* s.replace(old, new), old not empty
Replace(s, old, new) ==
    IF s = "" THEN ""
    ELSE IF StartsWith(s, old) THEN new \o Replace(SubSeq(s, Len(old) + 1, Len(s)), old, new)
    ELSE CharAt(s, 1) \o Replace(SubSeq(s, 2, Len(s)), old, new)

\* the words of the first pattern: a line that begins with one is not kept
SkipWords == <<"This", "The", "Note", "Explanation", "Result", "Here", "Now">>

\* a plausible slip: the second pattern the same as the first
StopWords_same == <<"This", "The", "Note", "Explanation", "Result", "Here", "Now">>

\* the words of the second pattern: a line that begins with one ends the loop
StopWords == <<"This", "The", "Note", "Explanation">>

\* re.match(r'^(w1|w2|...)', stripped, re.IGNORECASE)
MatchesPrefix(words, stripped) ==
    \E i \in 1..Len(words) : StartsWith(Lower(stripped), Lower(words[i]))

RECURSIVE CleanLines(_, _, _)
\* the `for line in code.split('\n')` loop from line number i on, with the
\* lines kept so far
CleanLines(all, i, lines) ==
    IF i > Len(all) THEN lines
    ELSE LET line == all[i]
             stripped == Strip(line)
         IN IF stripped # "" /\ ~MatchesPrefix(SkipWords, stripped)
            THEN CleanLines(all, i + 1, Append(lines, line))
            ELSE IF MatchesPrefix(StopWords, stripped) THEN lines
            ELSE CleanLines(all, i + 1, lines)

\* parts[0] of s.split(sep), sep one character
BeforeFirst(s, sep) ==
    IF \E i \in 1..Len(s) : CharAt(s, i) = sep
    THEN SubSeq(s, 1, (CHOOSE i \in 1..Len(s) :
                          /\ CharAt(s, i) = sep
                          /\ \A k \in 1..(i - 1) : CharAt(s, k) # sep) - 1)
    ELSE s

\* _clean_code(raw_response, mode)
_clean_code(raw_response, lang) ==
    LET unfenced == Replace(Replace(Replace(Replace(raw_response, "~~~" \o lang, ""),
                                            "~~~sql", ""), "~~~python", ""), "~~~", "")
        lines == CleanLines(SplitLines(Strip(unfenced)), 1, <<>>)
        joined == Strip(Join("\n", lines))
    IN IF lang = "sql" /\ Contains(joined, ";")
       THEN Strip(BeforeFirst(joined, ";")) \o ";"
       ELSE joined

(***************************************************************************)
(* AppState (core/state.py)                                                *)
(***************************************************************************)
\* config.DEFAULT_APP_MODE = AppMode.NATURAL_LANGUAGE
DEFAULT_APP_MODE == "natural"

\* the names bound in the module state.py: its imports and its class
StateModuleNames == { "st", "pd", "Optional", "DEFAULT_APP_MODE", "AppState" }

\* the value of a global name of state.py, or the NameError its lookup raises
StateGlobal(name) ==
    IF name \in StateModuleNames
    THEN (IF name = "DEFAULT_APP_MODE" THEN Str(DEFAULT_APP_MODE) ELSE Other)
    ELSE Raise("NameError")

\* AppState.clear_all(): the dict display is evaluated first, then assigned
\* to st.session_state.app_state; what is returned is the app_state after
\* the call and the exception that left it, if any
clear_all(app_state) ==
    LET current_mode == StateGlobal("DEFAULT_MODE") IN
    IF current_mode.kind = "raise"
    THEN [kind |-> "call", raised |-> current_mode, app_state |-> app_state]
    ELSE [kind |-> "call", raised |-> NoneVal,
          app_state |-> [df |-> NoneVal, conn |-> NoneVal, schema |-> NoneVal,
                         current_mode |-> current_mode.s, display_messages |-> <<>>,
                         total_cost |-> 0, api_calls |-> 0, cost_history |-> <<>>]]

(***************************************************************************)
(* SpecFn: the pure functions of the program applied to an argument        *)
(***************************************************************************)
Bool(b) == [kind |-> "bool", b |-> b]

\* what a user types: questions, statements, scripts, and questions that
\* mention the data the way code does
DetectTexts ==
    { "show me the top orders", "SELECT * FROM orders", "select name from df", "SELECT 1",
      "  select * from df\n", "WITH t AS (SELECT 1) SELECT * FROM t",
      "with sales AS a whole, what changed", "DROP TABLE df", "update me on the sales",
      "UPDATE df SET age = 1", "what is in df.columns", "average of df[age] by name",
      "plot age with px.bar please", "can pd.concat join them", "import pandas",
      "from the data, show the top orders", "def f(): pass", "class A: pass", "df.head()",
      "print(len(df))", "fig = px.bar(df)", "how does .groupby( work", "  df.describe()",
      "call .plot( on age", "Import the data", "classify the orders" }

DetectCalls == { [fn |-> f, arg |-> t] : f \in {"is_raw_sql", "is_raw_python"}, t \in DetectTexts }

\* the tables and script results the compact formatters are given
FormatCalls ==
    { [fn |-> "_format_dataframe_compact", arg |-> f] : f \in CtxFrames \ {NoneVal} }
    \cup { [fn |-> "_format_python_compact", arg |-> r] : r \in CtxPyResults \ {NoneVal} }

\* what the model answers, with the mode the generator was called in; the
\* three backquotes of a code fence are written ~~~ here
CleanCalls ==
    { [fn |-> "_clean_code", arg |-> a] : a \in
        { <<"SELECT name FROM df", "sql">>,
          <<"~~~sql\nSELECT name FROM df;\n~~~", "sql">>,
          <<"Here is the query:\nSELECT name FROM df", "sql">>,
          <<"SELECT name FROM df\n\nThis query lists the names.\nSELECT 2", "sql">>,
          <<"SELECT 1; SELECT 2", "sql">>,
          <<"SELECT name FROM df WHERE name = 'a;b'; SELECT 2", "sql">>,
          <<"SELECT name FROM df WHERE name = 'a;b'", "sql">>,
          <<"Result:\nSELECT age FROM df\nNow the total:\nSELECT 1", "sql">>,
          <<"~~~python\nresult = df.head()\nprint(result)\n~~~", "python">>,
          <<"import pandas as pd\nnow = 1\nprint(now)\nNote: prints 1\nprint(2)", "python">>,
          <<"theta = 1\nprint(theta)", "python">>,
          <<"print(1)\n\n  print(2)  \nExplanation: two prints", "python">>,
          <<"~~~\nprint(1); print(2)\n~~~", "python">> } }

\* st.session_state.app_state as AppState.__init__ creates it, after the
\* data is loaded, and after two requests
AppStates ==
    { [df |-> NoneVal, conn |-> NoneVal, schema |-> NoneVal, current_mode |-> DEFAULT_APP_MODE,
       display_messages |-> <<>>, total_cost |-> 0, api_calls |-> 0, cost_history |-> <<>>],
      [df |-> TwoRows, conn |-> Other, schema |-> Other, current_mode |-> DEFAULT_APP_MODE,
       display_messages |-> <<>>, total_cost |-> 0, api_calls |-> 0, cost_history |-> <<>>],
      [df |-> TwoRows, conn |-> Other, schema |-> Other, current_mode |-> "sql",
       display_messages |-> <<[role |-> "user", content |-> "show me the top orders",
                               mode |-> "sql"]>>,
       total_cost |-> 3, api_calls |-> 2,
       cost_history |-> <<[model |-> "gpt-5-nano", cost |-> 3]>>] }

StateCalls == { [fn |-> "clear_all", arg |-> a] : a \in AppStates }

FnCalls == DetectCalls \cup FormatCalls \cup CleanCalls \cup StateCalls

InitFn ==
    /\ fnPc = "call"
    /\ fnCall \in FnCalls
    /\ fnRet = NoneVal
    /\ CoreIdle
    /\ DataIdle
    /\ SessionsIdle
    /\ LibIdle
    /\ LaterIdle

\* is_raw_sql(user_input) if mode == "sql" else is_raw_python(user_input)
FnDetect ==
    /\ fnPc = "call"
    /\ fnCall.fn \in {"is_raw_sql", "is_raw_python"}
    /\ fnRet' = Bool(IF fnCall.fn = "is_raw_sql" THEN is_raw_sql(fnCall.arg)
                     ELSE is_raw_python(fnCall.arg))
    /\ fnPc' = "ret"
    /\ UNCHANGED fnCall

\* self._format_dataframe_compact(df) / self._format_python_compact(result)
FnFormat ==
    /\ fnPc = "call"
    /\ fnCall.fn \in {"_format_dataframe_compact", "_format_python_compact"}
    /\ fnRet' = IF fnCall.fn = "_format_dataframe_compact"
                THEN _format_dataframe_compact(fnCall.arg)
                ELSE _format_python_compact(fnCall.arg)
    /\ fnPc' = "ret"
    /\ UNCHANGED fnCall

\* self._clean_code(raw_code, mode)
FnClean ==
    /\ fnPc = "call"
    /\ fnCall.fn = "_clean_code"
    /\ fnRet' = Str(_clean_code(fnCall.arg[1], fnCall.arg[2]))
    /\ fnPc' = "ret"
    /\ UNCHANGED fnCall

\* state.clear_all()
FnClearAll ==
    /\ fnPc = "call"
    /\ fnCall.fn = "clear_all"
    /\ fnRet' = clear_all(fnCall.arg)
    /\ fnPc' = "ret"
    /\ UNCHANGED fnCall

\* the next call
FnNextCall ==
    /\ fnPc = "ret"
    /\ fnCall' \in FnCalls
    /\ fnRet' = NoneVal
    /\ fnPc' = "call"

NextFn ==
    \/ FnDetect /\ UNCHANGED <<svars, cvars, hvars, dvars, ssvars, lvars, zvars>>
    \/ FnFormat /\ UNCHANGED <<svars, cvars, hvars, dvars, ssvars, lvars, zvars>>
    \/ FnClean /\ UNCHANGED <<svars, cvars, hvars, dvars, ssvars, lvars, zvars>>
    \/ FnClearAll /\ UNCHANGED <<svars, cvars, hvars, dvars, ssvars, lvars, zvars>>
    \/ FnNextCall /\ UNCHANGED <<svars, cvars, hvars, dvars, ssvars, lvars, zvars>>

SpecFn == InitFn /\ [][NextFn]_vars

(***************************************************************************)
(* QueryLibrary (core/query_library.py) and SpecLib: its operations        *)
(* applied one after another to data/queries.json                          *)
(***************************************************************************)
\* json.dump of one character of a str
JsonEscapeChar(c) ==
    IF c = "\"" THEN "\\\""
    ELSE IF c = "\\" THEN "\\\\"
    ELSE IF c = "\n" THEN "\\n"
    ELSE IF c = "\t" THEN "\\t"
    ELSE c

RECURSIVE JsonEscapeFrom(_, _)
JsonEscapeFrom(s, i) ==
    IF i > Len(s) THEN "" ELSE JsonEscapeChar(CharAt(s, i)) \o JsonEscapeFrom(s, i + 1)

\* json.dump of a str: quoted, with ", \, newline and tab escaped
JsonDumpStr(s) == "\"" \o JsonEscapeFrom(s, 1) \o "\""

RECURSIVE JsonUnescapeFrom(_, _)
JsonUnescapeFrom(s, i) ==
    IF i > Len(s) THEN ""
    ELSE IF CharAt(s, i) = "\\" /\ i < Len(s)
    THEN (IF CharAt(s, i + 1) = "n" THEN "\n"
          ELSE IF CharAt(s, i + 1) = "t" THEN "\t"
          ELSE CharAt(s, i + 1)) \o JsonUnescapeFrom(s, i + 2)
    ELSE CharAt(s, i) \o JsonUnescapeFrom(s, i + 1)

\* a plausible slip: the text between the quotes taken as it stands
JsonLoadStr_raw(j) == SubSeq(j, 2, Len(j) - 1)

\* json.load of a JSON string
JsonLoadStr(j) == JsonUnescapeFrom(SubSeq(j, 2, Len(j) - 1), 1)

\* str(uuid.uuid4()): never the same twice
NewQueryId(n) == "q-" \o IntToStr(n)

\* one element of "queries" in the file, as _save_queries writes it
StoredQuery(q) ==
    [id |-> JsonDumpStr(q.id), name |-> JsonDumpStr(q.name),
     description |-> JsonDumpStr(q.description), mode |-> JsonDumpStr(q.mode),
     code |-> JsonDumpStr(q.code), tags |-> <<>>, created_at |-> q.created_at,
     last_used |-> q.last_used, use_count |-> q.use_count]

\* and as _load_queries reads it back
LoadedQuery(r) ==
    [id |-> JsonLoadStr(r.id), name |-> JsonLoadStr(r.name),
     description |-> JsonLoadStr(r.description), mode |-> JsonLoadStr(r.mode),
     code |-> JsonLoadStr(r.code), tags |-> r.tags, created_at |-> r.created_at,
     last_used |-> r.last_used, use_count |-> r.use_count]

_load_queries(file) == [i \in 1..Len(file) |-> LoadedQuery(file[i])]
_save_queries(queries) == [i \in 1..Len(queries) |-> StoredQuery(queries[i])]

\* the position of the first query with this id, 0 if there is none
FirstWithId(queries, query_id) ==
    IF \E i \in 1..Len(queries) : queries[i].id = query_id
    THEN CHOOSE i \in 1..Len(queries) :
            /\ queries[i].id = query_id
            /\ \A k \in 1..(i - 1) : queries[k].id # query_id
    ELSE 0

MaxLibOps == 4

\* (name, code, mode, description) given to save
SaveInputs ==
    { <<"top \"five\"", "SELECT \"name\" FROM df\nLIMIT 5", "sql", "">>,
      <<"flag", "df['flag'] = 1\nprint('a\\tb')", "python", "adds a\tcolumn">>,
      <<"flag", "SELECT 1", "sql", "same name">> }

InitLib ==
    /\ libFile = <<>>
    /\ libLast = [op |-> "init"]
    /\ libSaved = <<>>
    /\ libOps = 0
    /\ LaterIdle
    /\ CoreIdle
    /\ DataIdle
    /\ SessionsIdle
    /\ FnIdle

\* the identifiers save has returned so far, and one it never returned
KnownIds == { libSaved[i].id : i \in 1..Len(libSaved) } \cup { "q-0" }

\* QueryLibrary.save(name, code, mode, description)
LibSave ==
    /\ libOps < MaxLibOps
    /\ \E in \in SaveInputs :
        LET query_id == NewQueryId(libOps + 1)
            query == [id |-> query_id, name |-> in[1], description |-> in[4],
                      mode |-> in[3], code |-> in[2], tags |-> <<>>,
                      created_at |-> libOps + 1, last_used |-> libOps + 1, use_count |-> 0]
        IN /\ libFile' = _save_queries(Append(_load_queries(libFile), query))
           /\ libLast' = [op |-> "save", ret |-> Str(query_id)]
           /\ libSaved' = Append(libSaved, [id |-> query_id, code |-> in[2], mode |-> in[3],
                                            deleted |-> FALSE])
    /\ libOps' = libOps + 1

\* QueryLibrary.load(query_id)
LibLoad ==
    /\ libOps < MaxLibOps
    /\ \E query_id \in KnownIds :
        LET queries == _load_queries(libFile)
            i == FirstWithId(queries, query_id)
            used == [queries EXCEPT ![i].last_used = libOps + 1, ![i].use_count = @ + 1]
        IN IF i = 0
           THEN /\ libLast' = [op |-> "load", id |-> query_id, ret |-> NoneVal]
                /\ libFile' = libFile
           ELSE /\ libLast' = [op |-> "load", id |-> query_id, ret |-> used[i]]
                /\ libFile' = _save_queries(used)
    /\ libOps' = libOps + 1
    /\ UNCHANGED libSaved

\* QueryLibrary.delete(query_id)
LibDelete ==
    /\ libOps < MaxLibOps
    /\ \E query_id \in KnownIds :
        LET queries == _load_queries(libFile)
            kept == SelectSeq(queries, LAMBDA q : q.id # query_id)
        IN /\ libFile' = IF Len(kept) < Len(queries) THEN _save_queries(kept) ELSE libFile
           /\ libLast' = [op |-> "delete", id |-> query_id,
                          ret |-> Bool(Len(kept) < Len(queries))]
           /\ libSaved' = [i \in 1..Len(libSaved) |->
                              IF libSaved[i].id = query_id
                              THEN [libSaved[i] EXCEPT !.deleted = TRUE]
                              ELSE libSaved[i]]
    /\ libOps' = libOps + 1

NextLib ==
    \/ LibSave /\ UNCHANGED <<svars, cvars, hvars, dvars, ssvars, fvars, zvars>>
    \/ LibLoad /\ UNCHANGED <<svars, cvars, hvars, dvars, ssvars, fvars, zvars>>
    \/ LibDelete /\ UNCHANGED <<svars, cvars, hvars, dvars, ssvars, fvars, zvars>>

SpecLib == InitLib /\ [][NextLib]_vars

(***************************************************************************)
(* handle_loaded_query (app.py) beside the literal-code path of            *)
(* handle_code_mode: SpecLoaded                                            *)
(***************************************************************************)
\* the library as the sidebar finds it: three queries saved earlier
SavedQueries ==
    << [id |-> "q-1", name |-> "all orders", description |-> "", mode |-> "sql",
        code |-> "SELECT * FROM orders", tags |-> <<>>, created_at |-> 0, last_used |-> 0,
        use_count |-> 0],
       [id |-> "q-2", name |-> "first rows", description |-> "", mode |-> "python",
        code |-> "df.head()", tags |-> <<>>, created_at |-> 0, last_used |-> 0,
        use_count |-> 0],
       [id |-> "q-3", name |-> "refused", description |-> "", mode |-> "sql",
        code |-> "DROP TABLE df", tags |-> <<>>, created_at |-> 0, last_used |-> 0,
        use_count |-> 0] >>

\* what a request that ran code as given has left behind: the calls it made,
\* the executor's answer, the outcome turn of the context, the assistant
\* entries and the counters gained
Left(via, src, lang, events, ended, msgs, entries, calls, cost, history) ==
    LET last == events[Len(events)] IN
    [via |-> via, code |-> src, mode |-> lang, ended |-> ended,
     gens |-> Len(SelectSeq(events, LAMBDA e : e.ev = "gen")),
     execs |-> Len(SelectSeq(events, LAMBDA e : e.ev = "exec")),
     result |-> last.result, error |-> last.error,
     turn |-> IF Len(msgs) = 2 THEN msgs[2] ELSE NoneVal,
     entries |-> entries, calls |-> calls, cost |-> cost, history |-> history]

InitLoaded ==
    /\ CoreIdle
    /\ DataIdle
    /\ SessionsIdle
    /\ FnIdle
    /\ libFile = _save_queries(SavedQueries)
    /\ libLast = [op |-> "init"]
    /\ libSaved = [i \in 1..Len(SavedQueries) |->
                      [id |-> SavedQueries[i].id, code |-> SavedQueries[i].code,
                       mode |-> SavedQueries[i].mode, deleted |-> FALSE]]
    /\ libOps = 0
    /\ handled = <<>>
    /\ SavesIdle
    /\ StdoutIdle

\* handle_code_mode is called with code the user typed
TypedSubmit ==
    /\ Submit
    /\ is_raw'
    /\ UNCHANGED handled

\* ... and runs it: lines 124-143 and 247-308
TypedExecute ==
    /\ Execute
    /\ handled' = Append(handled,
           Left("typed", code, mode, trace', outcome', messages',
                Len(display_messages') - Len(display_messages),
                api_calls' - calls0, total_cost' - cost0,
                Len(cost_history') - Len(cost_history)))

\* handle_loaded_query(state, context_manager, executor, query_library) with
\* load_query_id set by the sidebar: the whole function
HandleLoadedQuery ==
    /\ pc = "idle"
    /\ requests < MaxRequests
    /\ \E n \in 1..Len(libFile) :
        LET query_id == JsonLoadStr(libFile[n].id)
            queries == _load_queries(libFile)
            i == FirstWithId(queries, query_id)
            used == [queries EXCEPT ![i].last_used = libOps + 1, ![i].use_count = @ + 1]
            query == used[i]
            ctx0 == add_user_message(FreshContextManager, "Loaded: " \o query.name, query.mode)
        IN /\ libFile' = _save_queries(used)
           /\ libLast' = [op |-> "load", id |-> query_id, ret |-> query]
           /\ mode' = query.mode
           /\ \E o \in Run(query.mode, query.code) :
               LET added == IF query.mode = "sql"
                            THEN add_sql_result(ctx0, query.code, o.result)
                            ELSE add_python_result(ctx0, query.code, o.result)
                   raised == IF Truthy(o.error) THEN NoneVal
                             ELSE IF o.result.kind = "None"
                             THEN Exc(IF query.mode = "sql" THEN "TypeError"
                                      ELSE "AttributeError", "")
                             ELSE IF added.kind = "raise" THEN Exc(added.exc, "")
                             ELSE NoneVal
                   ended == IF Truthy(o.error) THEN "direct_failed"
                            ELSE IF raised # NoneVal THEN "aborted" ELSE "succeeded"
                   msgs == IF Truthy(o.error)
                           THEN add_error(ctx0, query.code, o.error.s, query.mode)
                           ELSE IF raised # NoneVal THEN ctx0 ELSE added.messages
                   shown == IF ended = "succeeded"
                            THEN <<[role |-> "assistant",
                                    content |-> "Loaded query: " \o query.name,
                                    mode |-> query.mode, executed_code |-> query.code,
                                    result |-> o.result, source |-> "direct"]>>
                            ELSE <<>>
               IN /\ trace' = <<ExecEvent(0, query.code, o)>>
                  /\ messages' = msgs
                  /\ display_messages' = display_messages \o shown
                  /\ exception' = raised
                  /\ outcome' = ended
                  /\ handled' = Append(handled,
                         Left("loaded", query.code, query.mode, trace', ended, msgs,
                              Len(shown), 0, 0, 0))
    /\ libOps' = libOps + 1
    /\ requests' = requests + 1
    /\ cost0' = total_cost
    /\ calls0' = api_calls
    /\ UNCHANGED <<libSaved, total_cost, api_calls, cost_history, pc, user_input,
                   max_attempts, is_raw, attempt, error_context, code, metadata>>

NextLoaded ==
    \/ TypedSubmit /\ UNCHANGED <<svars, ctxLast, ctxOps, dvars, ssvars, fvars, lvars, rvars, ovars>>
    \/ TypedExecute /\ UNCHANGED <<svars, ctxLast, ctxOps, dvars, ssvars, fvars, lvars, rvars, ovars>>
    \/ HandleLoadedQuery /\ UNCHANGED <<svars, ctxLast, ctxOps, dvars, ssvars, fvars, rvars, ovars>>

SpecLoaded == InitLoaded /\ [][NextLoaded]_vars

(***************************************************************************)
(* SpecSaves: QueryLibrary.save called by two sessions, statement by        *)
(* statement, on the one file data/queries.json                            *)
(***************************************************************************)
InitSaves ==
    /\ CoreIdle
    /\ DataIdle
    /\ SessionsIdle
    /\ FnIdle
    /\ LoadedIdle
    /\ StdoutIdle
    /\ libFile = _save_queries(<<SavedQueries[1]>>)
    /\ libLast = [op |-> "init"]
    /\ libSaved = <<[id |-> SavedQueries[1].id, code |-> SavedQueries[1].code,
                     mode |-> SavedQueries[1].mode, deleted |-> FALSE]>>
    /\ libOps = 1
    /\ savePc = [u \in Sessions |-> "idle"]
    /\ saveQueries = [u \in Sessions |-> <<>>]

\* lines 46-63: queries = self._load_queries(); the new dict is appended to
\* the local list
SaveLoad(u) ==
    /\ savePc[u] = "idle"
    /\ \E in \in SaveInputs :
        LET query == [id |-> NewQueryId(libOps + 1), name |-> in[1], description |-> in[4],
                      mode |-> in[3], code |-> in[2], tags |-> <<>>,
                      created_at |-> libOps + 1, last_used |-> libOps + 1, use_count |-> 0]
        IN saveQueries' = [saveQueries EXCEPT ![u] = Append(_load_queries(libFile), query)]
    /\ libOps' = libOps + 1
    /\ savePc' = [savePc EXCEPT ![u] = "loaded"]
    /\ UNCHANGED <<libFile, libLast, libSaved>>

\* _save_queries, line 181: open(self.QUERIES_FILE, 'w') empties the file
SaveOpen(u) ==
    /\ savePc[u] = "loaded"
    /\ libFile' = <<>>
    /\ savePc' = [savePc EXCEPT ![u] = "opened"]
    /\ UNCHANGED <<libLast, libSaved, libOps, saveQueries>>

\* _save_queries, line 182, and return query_id: the whole local list is
\* written
SaveDump(u) ==
    /\ savePc[u] = "opened"
    /\ libFile' = _save_queries(saveQueries[u])
    /\ LET query == saveQueries[u][Len(saveQueries[u])]
       IN /\ libLast' = [op |-> "save", ret |-> Str(query.id)]
          /\ libSaved' = Append(libSaved, [id |-> query.id, code |-> query.code,
                                           mode |-> query.mode, deleted |-> FALSE])
    /\ savePc' = [savePc EXCEPT ![u] = "returned"]
    /\ UNCHANGED <<libOps, saveQueries>>

NextSaves ==
    \/ \E u \in Sessions : SaveLoad(u) /\ UNCHANGED <<svars, cvars, hvars, dvars, ssvars, fvars, ldvars, ovars>>
    \/ \E u \in Sessions : SaveOpen(u) /\ UNCHANGED <<svars, cvars, hvars, dvars, ssvars, fvars, ldvars, ovars>>
    \/ \E u \in Sessions : SaveDump(u) /\ UNCHANGED <<svars, cvars, hvars, dvars, ssvars, fvars, ldvars, ovars>>

SpecSaves == InitSaves /\ [][NextSaves]_vars

(***************************************************************************)
(* SpecStdout: execute_python called by two sessions of the one process,   *)
(* statement by statement                                                  *)
(***************************************************************************)
\* the lines the script of each session prints
PrintedLines == [u \in Sessions |-> IF u = 1 THEN <<"rows: 2", "done">>
                                    ELSE <<"total: 62", "ok">>]

\* the text the script of session u prints: print ends each line
PrintedText(u) == Join("", [k \in 1..Len(PrintedLines[u]) |-> PrintedLines[u][k] \o "\n"])

InitStdout ==
    /\ CoreIdle
    /\ DataIdle
    /\ SessionsIdle
    /\ FnIdle
    /\ LibIdle
    /\ LoadedIdle
    /\ SavesIdle
    /\ sysStdout = 0
    /\ outBuffer = [u \in Sessions |-> ""]
    /\ outPc = [u \in Sessions |-> [at |-> "idle", printed |-> 0]]
    /\ outRet = [u \in Sessions |-> NoneVal]
    /\ console = ""

\* lines 122-124: output_buffer = io.StringIO(); sys.stdout = output_buffer
OutRedirect(u) ==
    /\ outPc[u].at = "idle"
    /\ outBuffer' = [outBuffer EXCEPT ![u] = ""]
    /\ sysStdout' = u
    /\ outPc' = [outPc EXCEPT ![u] = [at |-> "exec", printed |-> 0]]
    /\ UNCHANGED <<outRet, console>>

\* line 127, exec(code, namespace): the script's next print writes to
\* whatever sys.stdout is at that moment
OutPrint(u) ==
    /\ outPc[u].at = "exec"
    /\ outPc[u].printed < Len(PrintedLines[u])
    /\ LET text == PrintedLines[u][outPc[u].printed + 1] \o "\n"
       IN IF sysStdout = 0
          THEN console' = console \o text /\ UNCHANGED outBuffer
          ELSE outBuffer' = [outBuffer EXCEPT ![sysStdout] = @ \o text] /\ UNCHANGED console
    /\ outPc' = [outPc EXCEPT ![u].printed = @ + 1]
    /\ UNCHANGED <<sysStdout, outRet>>

\* line 130: sys.stdout = sys.__stdout__
OutRestore(u) ==
    /\ outPc[u].at = "exec"
    /\ outPc[u].printed = Len(PrintedLines[u])
    /\ sysStdout' = 0
    /\ outPc' = [outPc EXCEPT ![u].at = "restored"]
    /\ UNCHANGED <<outBuffer, outRet, console>>

\* lines 131-154: output = output_buffer.getvalue(); the result is returned
OutReturn(u) ==
    /\ outPc[u].at = "restored"
    /\ outRet' = [outRet EXCEPT ![u] = Str(outBuffer[u])]
    /\ outPc' = [outPc EXCEPT ![u].at = "returned"]
    /\ UNCHANGED <<sysStdout, outBuffer, console>>

NextStdout ==
    \/ \E u \in Sessions : OutRedirect(u) /\ UNCHANGED <<svars, cvars, hvars, dvars, ssvars, fvars, lvars, ldvars, rvars>>
    \/ \E u \in Sessions : OutPrint(u) /\ UNCHANGED <<svars, cvars, hvars, dvars, ssvars, fvars, lvars, ldvars, rvars>>
    \/ \E u \in Sessions : OutRestore(u) /\ UNCHANGED <<svars, cvars, hvars, dvars, ssvars, fvars, lvars, ldvars, rvars>>
    \/ \E u \in Sessions : OutReturn(u) /\ UNCHANGED <<svars, cvars, hvars, dvars, ssvars, fvars, lvars, ldvars, rvars>>

SpecStdout == InitStdout /\ [][NextStdout]_vars

(***************************************************************************)
(* Properties                                                              *)
(***************************************************************************)
\* the generation calls of the current request that returned
ReturnedGenerations == SelectSeq(trace, LAMBDA e : e.ev = "gen" /\ ~e.raised)

RECURSIVE SumCosts(_)
SumCosts(events) == IF Len(events) = 0 THEN 0 ELSE events[1].cost + SumCosts(Tail(events))

\* C1: in a natural-language request the calls alternate generation, execution;
\* the i-th pair carries attempt number i (1, 2, ... strictly increasing), no
\* call follows an execution that returned no error, and no attempt number
\* exceeds max_attempts.
C1_AttemptsOrderedAndBounded ==
    (requests > 0 /\ ~is_raw) =>
        /\ Len(trace) <= 2 * max_attempts
        /\ \A i \in 1..Len(trace) :
            /\ trace[i].ev = (IF i % 2 = 1 THEN "gen" ELSE "exec")
            /\ trace[i].attempt = (i + 1) \div 2
            /\ trace[i].attempt <= max_attempts
            /\ (trace[i].ev = "exec" /\ trace[i].error = NoneVal) => i = Len(trace)

\* a request that failed on attempt 1 and succeeded on attempt 2
C1_Witness ==
    /\ ~is_raw
    /\ outcome = "succeeded"
    /\ Len(trace) = 4
    /\ trace[2].error # NoneVal
    /\ trace[4].error = NoneVal

\* C2 (as claimed): the first generation call gets no failure context, and
\* whenever the execution of attempt n < max_attempts returns an error, the
\* next call is the generation of attempt n+1 with exactly that attempt's code
\* and error text as its failure context.
C2_Original ==
    (requests > 0 /\ ~is_raw) =>
        \A i \in 1..Len(trace) :
            /\ (trace[i].ev = "gen" /\ trace[i].attempt = 1)
                   => trace[i].error_context = NoneVal
            /\ (trace[i].ev = "exec" /\ trace[i].error # NoneVal
                    /\ trace[i].attempt < max_attempts)
                   => IF i < Len(trace)
                      THEN /\ trace[i + 1].ev = "gen"
                           /\ trace[i + 1].attempt = trace[i].attempt + 1
                           /\ trace[i + 1].error_context
                                  = RetryContext(trace[i].code, trace[i].error.s)
                      ELSE /\ pc = "generate"
                           /\ attempt = trace[i].attempt + 1
                           /\ error_context = RetryContext(trace[i].code, trace[i].error.s)

\* C3 (as claimed): a natural-language request whose executions all returned
\* an error ends Exhausted after exactly max_attempts attempts, and the display
\* message and the context turn carry the last attempt's error text and code.
C3_Original ==
    (/\ requests > 0
     /\ ~is_raw
     /\ pc = "idle"
     /\ Len(trace) > 0
     /\ trace[Len(trace)].ev = "exec"
     /\ \A i \in 1..Len(trace) : trace[i].ev = "exec" => trace[i].error # NoneVal)
    => /\ outcome = "exhausted"
       /\ Len(trace) = 2 * max_attempts
       /\ display_messages[Len(display_messages)].error = trace[Len(trace)].error.s
       /\ display_messages[Len(display_messages)].executed_code = trace[Len(trace)].code
       /\ messages[Len(messages)]
              = Turn("assistant",
                     Upper(mode) \o ":\n" \o trace[Len(trace)].code
                         \o "\n\nError: " \o trace[Len(trace)].error.s,
                     mode)

\* C4: a request classified as literal code makes no generation call and one
\* execution call, and handle_code_mode has returned once that call has.
C4_LiteralCodeOneExecution ==
    (requests > 0 /\ is_raw) =>
        /\ pc \in {"execute", "idle"}
        /\ Len(trace) = (IF pc = "idle" THEN 1 ELSE 0)
        /\ \A i \in 1..Len(trace) : trace[i].ev = "exec"

\* literal code failed while a retry budget of 2 was given
C4_Witness ==
    /\ is_raw
    /\ outcome = "direct_failed"
    /\ max_attempts = 2
    /\ Len(trace) = 1

\* C5 (as claimed): whenever handle_code_mode has ended a natural-language
\* request, total_cost has grown by the sum of the costs of the generation
\* calls that returned and api_calls by their number.
C5_Original ==
    (requests > 0 /\ ~is_raw /\ pc = "idle") =>
        /\ total_cost = cost0 + SumCosts(ReturnedGenerations)
        /\ api_calls = calls0 + Len(ReturnedGenerations)

\* the two rejections of execute_sql
IsPolicyError(ret) ==
    /\ ret.error.kind = "str"
    /\ \/ ret.error.s = OnlySelectMsg
       \/ \E i \in 1..Len(dangerous_keywords) : ret.error.s = DangerousMsg(dangerous_keywords[i])

\* C6: a call of execute_sql that returns a policy error has returned no
\* result and has called neither conn.register nor conn.execute.
C6_RejectedNeverReachesEngine ==
    (sqlPc = "ret" /\ IsPolicyError(sqlRet)) =>
        /\ sqlRet.result = NoneVal
        /\ sqlRet.registerCalls = 0
        /\ sqlRet.executeCalls = 0

\* a retrieval statement rejected for an embedded DROP
C6_Witness ==
    /\ sqlPc = "ret"
    /\ StartsWith(Upper(Strip(sqlCode)), "SELECT")
    /\ sqlRet.error = Str(DangerousMsg("DROP"))

ClaimedKeywords ==
    { "CREATE", "ALTER", "DROP", "INSERT", "UPDATE", "DELETE", "TRUNCATE", "GRANT",
      "REVOKE", "EXECUTE" }
CheckedKeywords ==
    { "CREATE", "ALTER", "DROP", "INSERT", "UPDATE", "DELETE", "TRUNCATE", "GRANT",
      "REVOKE", "EXEC" }

\* the acceptance rule with a given keyword list: rejected iff the trimmed,
\* upper-cased text does not begin with SELECT or contains a keyword;
\* accepted statements are handed to the engine
AcceptanceRule(keywords) ==
    sqlPc = "ret" =>
        IF \/ ~StartsWith(Upper(Strip(sqlCode)), "SELECT")
           \/ \E k \in keywords : Contains(Upper(Strip(sqlCode)), k)
        THEN IsPolicyError(sqlRet) /\ sqlRet.registerCalls = 0
        ELSE ~IsPolicyError(sqlRet) /\ sqlRet.registerCalls = 1

\* C7 (as claimed): the keyword list is create/alter/drop/insert/update/
\* delete/truncate/grant/revoke/execute, and every other statement that
\* begins with SELECT is run on the engine.
C7_Original == AcceptanceRule(ClaimedKeywords)

\* C7 (amended): the same rule with exec in place of execute, so that a
\* statement holding exec anywhere (exec_time) is rejected too.
C7_RejectsByExecSubstring == AcceptanceRule(CheckedKeywords)

\* a retrieval statement rejected for exec inside a column name
C7_Witness ==
    /\ sqlPc = "ret"
    /\ StartsWith(Upper(Strip(sqlCode)), "SELECT")
    /\ ~Contains(Upper(sqlCode), "EXECUTE")
    /\ sqlRet.error = Str(DangerousMsg("EXEC"))

\* C8 (as claimed): every turn derived from an execution outcome is at most
\* MAX_MESSAGE_LENGTH characters long.
C8_Original ==
    \A i \in 1..Len(messages) :
        messages[i].role = "assistant" => Len(messages[i].content) <= MAX_MESSAGE_LENGTH

\* C9 (as claimed): get_context_for_ai(limit) returns the last
\* min(limit, number of turns) turns in their order.
C9_Original ==
    ctxLast.op = "get_context_for_ai" =>
        LET n == Len(messages)
            k == IF ctxLast.input < n THEN ctxLast.input ELSE n
        IN ctxLast.ret = SubSeq(messages, n - k + 1, n)

\* C10 (as claimed): recording a result never raises, whatever the result is.
C10_Original ==
    ctxLast.op \in {"add_sql_result", "add_python_result"} => ~ctxLast.raised

\* C11: a generation call whose language-model call failed is the last call
\* of the request (no execution for that attempt, no further generation, one
\* generation call for that attempt number), handle_code_mode has ended, and
\* the exception that leaves it carries the client's error text.
C11_GenerationFailureIsTerminal ==
    \A i \in 1..Len(trace) :
        (trace[i].ev = "gen" /\ trace[i].raised) =>
            /\ i = Len(trace)
            /\ \A j \in 1..(i - 1) :
                   trace[j].ev = "gen" => trace[j].attempt # trace[i].attempt
            /\ pc = "idle"
            /\ outcome = "aborted"
            /\ exception.kind = "raise"
            /\ exception.exc = "RuntimeError"
            /\ \E e \in ApiErrors : Contains(exception.msg, e)

\* the language-model call failed on attempt 2, after a failed attempt 1
C11_Witness ==
    /\ Len(trace) = 3
    /\ trace[3].ev = "gen"
    /\ trace[3].raised
    /\ trace[3].attempt = 2
    /\ exception.kind = "raise"

\* C12 (as claimed): after an executor call has returned, with a result or
\* with an error, the session's dataset is what it was before the call.
C12_Original ==
    execLast.op \in {"execute_python", "execute_sql"} => dataset = execLast.before

\* C13 (as claimed): a session observes only its own state, whatever the
\* other session does: SELECT * FROM df returns the session's own dataset.
C13_Original ==
    \A u \in Sessions : sessResult[u] # NoneVal => sessResult[u] = sessDf[u]

\* C14 (as claimed): whenever handle_code_mode is about to call
\* execute_python, the call has a return, and for a script that never ends
\* on its own that return is an execution error.
C14_Original ==
    (pc = "execute" /\ mode = "python") =>
        /\ execute_python(code) # {}
        /\ NeverEnds(code) =>
               \A o \in execute_python(code) : o.result = NoneVal /\ o.error.kind = "str"

SqlCodePrefixes ==
    { "SELECT", "WITH", "CREATE ", "ALTER ", "DROP ", "INSERT ", "UPDATE ", "DELETE " }
PythonCodePrefixes == { "import ", "from ", "def ", "class " }
PythonCodeMarkers == { "pd.", "px.", "df.", "df[", ".plot(", ".groupby(" }

\* C15 (as claimed): an input is classified as literal code only when it
\* begins with a code prefix of the active mode.
C15_Original ==
    (fnPc = "ret" /\ fnCall.fn \in {"is_raw_sql", "is_raw_python"} /\ fnRet.b) =>
        IF fnCall.fn = "is_raw_sql"
        THEN \E q \in SqlCodePrefixes : StartsWith(Upper(Strip(fnCall.arg)), q)
        ELSE \E q \in PythonCodePrefixes \cup PythonCodeMarkers :
                 StartsWith(Strip(fnCall.arg), q)

\* C15 (amended): in query mode the input is literal code exactly when the
\* trimmed, upper-cased text begins with SELECT and contains " FROM ", begins
\* with WITH and contains " AS ", or begins with a mutation keyword and a
\* space; in script mode exactly when the trimmed text begins with import,
\* from, def or class and a space, or contains one of pd. px. df. df[ .plot(
\* .groupby( anywhere.
C15_DetectionRule ==
    (fnPc = "ret" /\ fnCall.fn \in {"is_raw_sql", "is_raw_python"}) =>
        LET t == Strip(fnCall.arg)
            u == Upper(t)
        IN fnRet.b =
             IF fnCall.fn = "is_raw_sql"
             THEN \E q \in SqlCodePrefixes :
                     /\ StartsWith(u, q)
                     /\ q = "SELECT" => Contains(u, " FROM ")
                     /\ q = "WITH" => Contains(u, " AS ")
             ELSE \/ \E q \in PythonCodePrefixes : StartsWith(t, q)
                  \/ \E q \in PythonCodeMarkers : Contains(t, q)

\* a question that mentions df.columns is taken for a script
C15_Witness ==
    /\ fnPc = "ret"
    /\ fnCall = [fn |-> "is_raw_python", arg |-> "what is in df.columns"]
    /\ fnRet = Bool(TRUE)

\* C16: a load of an identifier that save returned and that has not been
\* deleted returns a record with that identifier whose code and mode are the
\* saved ones, whatever was saved, loaded or deleted in between; and every
\* save returns an identifier no earlier save returned.
C16_SaveLoadRoundTrip ==
    /\ \A i, k \in 1..Len(libSaved) : libSaved[i].id = libSaved[k].id => i = k
    /\ libLast.op = "load" =>
          \A i \in 1..Len(libSaved) :
              (libSaved[i].id = libLast.id /\ ~libSaved[i].deleted) =>
                  /\ libLast.ret # NoneVal
                  /\ libLast.ret.id = libLast.id
                  /\ libLast.ret.code = libSaved[i].code
                  /\ libLast.ret.mode = libSaved[i].mode

\* two saves, the second one deleted, then the first one loaded: its code
\* holds quotes and a line break
C16_Witness ==
    /\ libLast.op = "load"
    /\ Len(libSaved) = 2
    /\ libSaved[2].deleted
    /\ libLast.id = libSaved[1].id
    /\ libLast.ret # NoneVal
    /\ libLast.ret.code = "SELECT \"name\" FROM df\nLIMIT 5"

\* C17 (as claimed): the summary of every table, a table without rows
\* included, names the number of rows, the number of columns and the first
\* ten column labels, and shows sample rows when there are rows.  Summaries
\* cut at the character budget are left aside.
C17_Original ==
    (/\ fnPc = "ret"
     /\ fnCall.fn = "_format_dataframe_compact"
     /\ fnRet.kind = "str"
     /\ Len(fnRet.s) <= MAX_MESSAGE_LENGTH) =>
        LET df == fnCall.arg
        IN /\ Contains(fnRet.s, IntToStr(Len(df.rows)) \o " rows")
           /\ Contains(fnRet.s, IntToStr(Len(df.columns)) \o " columns")
           /\ \A c \in 1..Len(Take(df.columns, 10)) : Contains(fnRet.s, df.columns[c].text)
           /\ Len(df.rows) > 0 => Contains(fnRet.s, "Sample: ")

\* C18 (as claimed): the text either compact formatter returns is at most
\* MAX_MESSAGE_LENGTH characters long.
C18_Original ==
    (/\ fnPc = "ret"
     /\ fnCall.fn \in {"_format_dataframe_compact", "_format_python_compact"}
     /\ fnRet.kind = "str") =>
        Len(fnRet.s) <= MAX_MESSAGE_LENGTH

\* C19: while a request is being handled the context holds its user turn
\* and nothing else, however many attempts have failed; when the request has
\* ended in success, in the failure of user-written code or in exhaustion
\* the context holds two turns, the user turn and then one turn of the
\* outcome: the result turn of the last execution on success, otherwise the
\* error turn with the code and the error of the last execution.
C19_UserTurnThenOneOutcomeTurn ==
    /\ outcome = "running" => messages = <<Turn("user", user_input, mode)>>
    /\ outcome \in {"succeeded", "direct_failed", "exhausted"} =>
          LET last == trace[Len(trace)]
              recorded == IF mode = "sql" THEN add_sql_result(<<>>, last.code, last.result)
                          ELSE add_python_result(<<>>, last.code, last.result)
          IN /\ Len(messages) = 2
             /\ messages[1] = Turn("user", user_input, mode)
             /\ last.ev = "exec"
             /\ IF outcome = "succeeded"
                THEN /\ ~Truthy(last.error)
                     /\ messages[2] = recorded.messages[1]
                ELSE /\ Truthy(last.error)
                     /\ messages[2].role = "assistant"
                     /\ messages[2].content =
                            Upper(mode) \o ":\n" \o last.code \o "\n\nError: " \o last.error.s

\* a request exhausted after two failed attempts: two generations and two
\* executions, and two turns in the context
C19_Witness ==
    /\ outcome = "exhausted"
    /\ attempt = 2
    /\ Len(trace) = 4
    /\ Len(messages) = 2

\* the text left when the fences are taken out of an answer and it is trimmed
Unfenced(raw) == Strip(Replace(Replace(Replace(raw, "~~~sql", ""), "~~~python", ""), "~~~", ""))

LineBegins(line, words) ==
    \E w \in words : StartsWith(Lower(Strip(line)), Lower(w))

SevenWords == { "This", "The", "Note", "Explanation", "Result", "Here", "Now" }

\* the lines of the answer that are not blank, begin with none of the seven
\* words and come before the first line that begins with a word of stopping,
\* joined and trimmed; in query mode cut after the first semicolon
LinesBeforeFirst(raw, lang, stopping) ==
    LET all == SplitLines(Unfenced(raw))
        numbered == [i \in 1..Len(all) |-> <<i, all[i]>>]
        kept == SelectSeq(numbered, LAMBDA n :
                    /\ Strip(n[2]) # ""
                    /\ ~LineBegins(n[2], SevenWords)
                    /\ \A k \in 1..n[1] : ~LineBegins(all[k], stopping))
        text == Strip(Join("\n", [i \in 1..Len(kept) |-> kept[i][2]]))
    IN IF lang = "sql" /\ \E i \in 1..Len(text) : CharAt(text, i) = ";"
       THEN Strip(SubSeq(text, 1, (CHOOSE i \in 1..Len(text) :
                      CharAt(text, i) = ";" /\ \A k \in 1..(i - 1) : CharAt(text, k) # ";") - 1))
            \o ";"
       ELSE text

\* C20 (as claimed): the cleaned code is made of the non-blank lines that
\* come before the first line beginning with any of the seven words.
C20_Original ==
    (fnPc = "ret" /\ fnCall.fn = "_clean_code") =>
        fnRet.s = LinesBeforeFirst(fnCall.arg[1], fnCall.arg[2], SevenWords)

\* C20 (amended): every line beginning with one of the seven words is
\* dropped, but only a line beginning with This, The, Note or Explanation
\* ends the code; a line beginning with Result, Here or Now is dropped and
\* the lines after it are kept.
C20_StopsAtFourWordsOnly ==
    (fnPc = "ret" /\ fnCall.fn = "_clean_code") =>
        fnRet.s = LinesBeforeFirst(fnCall.arg[1], fnCall.arg[2],
                                   {"This", "The", "Note", "Explanation"})

\* an answer that opens with "Here is the query:": the statement after it is kept
C20_Witness ==
    /\ fnPc = "ret"
    /\ fnCall.fn = "_clean_code"
    /\ fnCall.arg = <<"Here is the query:\nSELECT name FROM df", "sql">>
    /\ fnRet = Str("SELECT name FROM df")

\* the position of the first semicolon of text that stands outside a string
\* literal (an even number of quotes before it), 0 when there is none
TopLevelSemicolon(text) ==
    LET outside(i) == Cardinality({ k \in 1..(i - 1) : CharAt(text, k) = "'" }) % 2 = 0
        top == { i \in 1..Len(text) : CharAt(text, i) = ";" /\ outside(i) }
    IN IF top = {} THEN 0 ELSE CHOOSE i \in top : \A k \in top : i <= k

\* C21 (as claimed): in query mode the cleaned code is the first statement of
\* the answer, cut at the first semicolon outside a string literal; an
\* answer without such a semicolon is kept whole.
C21_Original ==
    (fnPc = "ret" /\ fnCall.fn = "_clean_code" /\ fnCall.arg[2] = "sql") =>
        LET text == LinesBeforeFirst(fnCall.arg[1], "python",
                                     {"This", "The", "Note", "Explanation"})
            cut == TopLevelSemicolon(text)
        IN fnRet.s = IF cut = 0 THEN text ELSE Strip(SubSeq(text, 1, cut - 1)) \o ";"

\* the number of lines of a console output: a final line break ends the
\* last line, it does not begin another
OutputLineCount(output) ==
    LET breaks == Cardinality({ i \in 1..Len(output) : CharAt(output, i) = "\n" })
    IN IF output # "" /\ CharAt(output, Len(output)) = "\n" THEN breaks ELSE breaks + 1

\* C22 (as claimed): the summary of a script result carries the truncation
\* marker exactly when the captured output has more than 5 lines.
C22_Original ==
    (/\ fnPc = "ret"
     /\ fnCall.fn = "_format_python_compact"
     /\ fnRet.kind = "str"
     /\ Truthy(fnCall.arg.output)) =>
        (Contains(fnRet.s, "... (truncated)") <=> OutputLineCount(fnCall.arg.output.s) > 5)

\* C23 (as claimed): a loaded query makes no generation call and one
\* execution call, and when a typed request and a loaded one ran the same
\* code in the same mode with the same answer of the executor, they left the
\* same outcome turn, as many assistant entries in display_messages and the
\* same gains of the cost counters.
C23_Original ==
    \A i, k \in 1..Len(handled) :
        (/\ handled[i].via = "typed"
         /\ handled[k].via = "loaded"
         /\ handled[i].code = handled[k].code
         /\ handled[i].mode = handled[k].mode
         /\ handled[i].result = handled[k].result
         /\ handled[i].error = handled[k].error) =>
            /\ handled[k].gens = 0
            /\ handled[k].execs = 1
            /\ handled[k].ended = handled[i].ended
            /\ handled[k].turn = handled[i].turn
            /\ handled[k].entries = handled[i].entries
            /\ handled[k].calls = handled[i].calls
            /\ handled[k].cost = handled[i].cost
            /\ handled[k].history = handled[i].history

\* C24 (as claimed): clear_all returns normally and leaves df, conn and
\* schema None, the default mode, no display message, no cost history and
\* zero counters.
C24_Original ==
    (fnPc = "ret" /\ fnCall.fn = "clear_all") =>
        /\ fnRet.raised = NoneVal
        /\ fnRet.app_state =
              [df |-> NoneVal, conn |-> NoneVal, schema |-> NoneVal,
               current_mode |-> "natural", display_messages |-> <<>>,
               total_cost |-> 0, api_calls |-> 0, cost_history |-> <<>>]

\* C25 (as claimed): when an earlier request of the session has recorded
\* its outcome, the first generation call of the current request is sent
\* that outcome turn among the prior turns.
C25_Original ==
    (/\ Len(trace) > 0
     /\ trace[1].ev = "gen"
     /\ \E i, k \in 1..Len(display_messages) :
            /\ i < k
            /\ display_messages[i].role = "assistant"
            /\ display_messages[k].role = "user") =>
        \E n \in 1..Len(trace[1].sent) : trace[1].sent[n].role = "assistant"

\* C26 (as claimed): in the messages of every generation call the text of
\* the current request stands once, as the last message, and no message
\* before it carries it.
C26_Original ==
    \A e \in 1..Len(trace) :
        trace[e].ev = "gen" =>
            LET sent == trace[e].sent
            IN /\ sent[Len(sent)] = [role |-> "user", content |-> user_input]
               /\ \A n \in 1..(Len(sent) - 1) :
                      ~(sent[n].role = "user" /\ sent[n].content = user_input)

\* C27 (as claimed): when a request has ended in success, in the failure of
\* user-written code or in exhaustion, api_calls has grown by the number of
\* generation calls of the request that returned.
C27_Original ==
    outcome \in {"succeeded", "direct_failed", "exhausted"} =>
        api_calls - calls0 =
            Len(SelectSeq(trace, LAMBDA e : e.ev = "gen" /\ ~e.raised))

\* C28 (as claimed): a statement that is_raw_sql takes for literal code and
\* that contains none of the keywords execute_sql looks for is not refused
\* by execute_sql and is handed to the engine.
C28_Original ==
    (/\ sqlPc = "ret"
     /\ is_raw_sql(sqlCode)
     /\ \A k \in CheckedKeywords : ~Contains(Upper(Strip(sqlCode)), k)) =>
        /\ ~IsPolicyError(sqlRet)
        /\ sqlRet.registerCalls = 1

\* C29 (as claimed): once both sessions' save calls have returned, the file
\* holds a record for every identifier a save has returned, the earlier
\* ones included.
C29_Original ==
    (\A u \in Sessions : savePc[u] = "returned") =>
        \A i \in 1..Len(libSaved) :
            FirstWithId(_load_queries(libFile), libSaved[i].id) # 0

\* C30 (as claimed): the output a call of execute_python returns is the
\* text its own script printed, whatever the other session's call does
\* meanwhile.
C30_Original ==
    \A u \in Sessions :
        outRet[u] # NoneVal => outRet[u] = Str(PrintedText(u))

====
